---- MODULE Spec2Model ----
(***************************************************************************)
(* Model of the transfer coordinator (TransactionEngine), the format       *)
(* codecs it uses (FormatConverter and the JSON / JSONL / CSV / YAML       *)
(* formatters) and the remote content store it talks to through            *)
(* GitHubAPIWrapper.                                                       *)
(*                                                                         *)
(* A path is the sequence of the tokens of a file name ("." and "-" are    *)
(* tokens of their own).  A document is a function from field names to     *)
(* values; a value is a tagged scalar.  The text of a file is modelled by  *)
(* its layout (which serializer wrote it) and the documents it spells.     *)
(***************************************************************************)
EXTENDS Integers, Sequences, FiniteSets, TLC

\* Total number of transfer() invocations in one behaviour.
MaxCalls == 2
\* Number of writes made by other writers of the same repository.
MaxExternal == 1
MaxQueueCalls == 3
MaxDbOps == 1
MaxDbCalls == 1
MaxCacheOps == 3

\* The asynchronous callers of one TransactionEngine instance.
Tasks == {"t1", "t2"}

-----------------------------------------------------------------------------
(* Values and documents *)

Num(n) == [t |-> "num", v |-> n]
\* Str(n) is the decimal text of n; EmptyStr is ''.
Str(n) == [t |-> "str", v |-> n]
EmptyStr == [t |-> "str", v |-> 0 - 1]
\* new Date().toISOString()
nowISO == [t |-> "iso", v |-> 0]

\* String(value) as used by the CSV serializer
toString(val) == IF val.t = "num" THEN Str(val.v) ELSE val

alice == [id |-> Num(1), age |-> Num(30)]
bob == [id |-> Num(2), age |-> Num(20)]
carol == [id |-> Num(3), age |-> Num(41)]
rowDave == [id |-> Str(4), name |-> Str(7)]
emptyDoc == [f \in {} |-> Num(0)]
blankName == [name |-> EmptyStr]

NoDocs == << >>

-----------------------------------------------------------------------------
(* Paths *)

Dot == "."
Dash == "-"
newJsonl == <<"new", Dot, "jsonl">>
doneJson == <<"done", Dot, "json">>
doneCsv == <<"done", Dot, "csv">>
\* "done.json-done.csv" and "new.jsonl-done.json"
doneJsonDoneCsv == doneJson \o <<Dash>> \o doneCsv
newJsonlDoneJson == newJsonl \o <<Dash>> \o doneJson

\* "done" and "done.json.json"
done == <<"done">>
doneJsonJson == doneJson \o <<Dot, "json">>

Paths == {newJsonl, doneJson, doneCsv, doneJsonDoneCsv, newJsonlDoneJson, done, doneJsonJson}

\* `${sourcePath}-${destPath}`
lockKey(sourcePath, destPath) == sourcePath \o <<Dash>> \o destPath

toLowerCase(tok) == CASE tok = "JSON" -> "json"
                      [] tok = "JSONL" -> "jsonl"
                      [] tok = "CSV" -> "csv"
                      [] tok = "YAML" -> "yaml"
                      [] tok = "YML" -> "yml"
                      [] OTHER -> tok

\* filename.split('.').pop(): the tokens after the last "."
RECURSIVE lastSegment(_)
lastSegment(filename) ==
    IF \E i \in 1..Len(filename) : filename[i] = Dot
    THEN lastSegment(Tail(filename))
    ELSE filename

detectFormat(filename) ==
    LET seg == lastSegment(filename)
        extension == IF Len(seg) = 1 THEN toLowerCase(seg[1]) ELSE "other"
    IN CASE extension = "json" -> "json"
         [] extension = "jsonl" -> "jsonl"
         [] extension = "csv" -> "csv"
         [] extension = "yaml" -> "yaml"
         [] extension = "yml" -> "yaml"
         [] OTHER -> "json"

-----------------------------------------------------------------------------
(* File text.  k is the layout: "empty" (''), "json_obj" (one bare object),
   "json_arr" (an array), "jsonl" (one object per line, newline-terminated),
   "jsonl_open" (one object per line, no newline after the last line),
   "csv" (header line and rows), "yaml_one", "yaml_multi" (documents joined
   by ---), "garbage" (text that is malformed in every encoding). *)

Text(k, ds) == [k |-> k, ds |-> ds]
EmptyText == Text("empty", NoDocs)
Garbage == Text("garbage", NoDocs)

Parsed(ds) == [ok |-> TRUE, ds |-> ds]
ParseError == [ok |-> FALSE, ds |-> NoDocs]

RECURSIVE Map(_, _)
Map(F(_), s) == IF s = << >> THEN << >> ELSE <<F(Head(s))>> \o Map(F, Tail(s))

\* JSONFormatter
JSONparse(content) ==
    CASE content.k = "empty" -> Parsed(NoDocs)
      [] content.k = "json_obj" -> Parsed(content.ds)
      [] content.k = "json_arr" -> Parsed(content.ds)
      [] content.k \in {"jsonl", "jsonl_open"} /\ Len(content.ds) = 1 -> Parsed(content.ds)
      [] OTHER -> ParseError

JSONserialize(documents) ==
    IF Len(documents) = 1 THEN Text("json_obj", documents)
    ELSE Text("json_arr", documents)

\* JSONLFormatter
JSONLparse(content) ==
    CASE content.k = "empty" -> Parsed(NoDocs)
      [] content.k \in {"jsonl", "jsonl_open"} -> Parsed(content.ds)
      [] OTHER -> ParseError

JSONLserialize(documents) ==
    IF Len(documents) > 0 THEN Text("jsonl", documents) ELSE EmptyText

\* CSVFormatter
CSVheaders(documents) == UNION {DOMAIN documents[i] : i \in 1..Len(documents)}

CSVrow(doc, headers) ==
    [h \in headers |-> IF h \in DOMAIN doc THEN toString(doc[h]) ELSE EmptyStr]

\* a data line that is blank: lines.filter(line => line.trim()) drops it
CSVblankRow(row) ==
    \/ DOMAIN row = {}
    \/ \E h \in DOMAIN row : DOMAIN row = {h} /\ row[h] = EmptyStr

RECURSIVE CSVdataRows(_)
CSVdataRows(rows) ==
    IF rows = << >> THEN << >>
    ELSE IF CSVblankRow(Head(rows)) THEN CSVdataRows(Tail(rows))
         ELSE <<Head(rows)>> \o CSVdataRows(Tail(rows))

CSVparse(content) ==
    CASE content.k = "csv" -> Parsed(CSVdataRows(content.ds))
      [] OTHER -> Parsed(NoDocs)

CSVserialize(documents) ==
    IF Len(documents) = 0 THEN EmptyText
    ELSE LET headers == CSVheaders(documents)
             row(doc) == CSVrow(doc, headers)
         IN Text("csv", Map(row, documents))

\* YAMLFormatter
YAMLparse(content) ==
    CASE content.k = "empty" -> Parsed(NoDocs)
      [] content.k = "yaml_one" -> Parsed(content.ds)
      [] content.k = "yaml_multi" -> Parsed(content.ds)
      [] OTHER -> ParseError

YAMLserialize(documents) ==
    CASE Len(documents) = 0 -> EmptyText
      [] Len(documents) = 1 -> Text("yaml_one", documents)
      [] OTHER -> Text("yaml_multi", documents)

\* getFormatter(format).parse / .serialize
parse(format, content) ==
    CASE format = "json" -> JSONparse(content)
      [] format = "jsonl" -> JSONLparse(content)
      [] format = "csv" -> CSVparse(content)
      [] OTHER -> YAMLparse(content)

serializeContent(docs, format) ==
    CASE format = "json" -> JSONserialize(docs)
      [] format = "jsonl" -> JSONLserialize(docs)
      [] format = "csv" -> CSVserialize(docs)
      [] OTHER -> YAMLserialize(docs)

-----------------------------------------------------------------------------
(* Predicates, transforms and conversion options a caller may pass *)

\* QueryPredicate: "adult" is doc => doc.age > 25
predicateHolds(predicate, doc) ==
    CASE predicate = "all" -> TRUE
      [] predicate = "nobody" -> FALSE
      [] OTHER -> "age" \in DOMAIN doc /\ doc["age"].t \in {"num", "str"} /\ doc["age"].v > 25

withField(doc, field, val) ==
    [f \in DOMAIN doc \cup {field} |-> IF f = field THEN val ELSE doc[f]]

\* transform: "archive" is doc => ({...doc, archived: 1}),
\* "senior" is doc => ({...doc, age: 60})
applyTransform(transform, doc) ==
    CASE transform = "archive" -> withField(doc, "archived", Num(1))
      [] transform = "senior" -> withField(doc, "age", Num(60))
      [] OTHER -> doc

\* ConversionOptions.  on = FALSE: no conversion option was passed.  filter and
\* transform "none", fieldMapping {} and timestampField "" are absent options.
\* fieldMapping is the set of its <<newField, oldField>> entries.
Conversion(f, tr, fm, ts) == [on |-> TRUE, filter |-> f, transform |-> tr, fieldMapping |-> fm, timestampField |-> ts]
NoConversion == [on |-> FALSE, filter |-> "none", transform |-> "none", fieldMapping |-> {}, timestampField |-> ""]
PlainConversion == Conversion("none", "none", {}, "")
StampConversion == Conversion("none", "none", {}, "exported_at")
FullConversion == Conversion("adult", "archive", {<<"uid", "id">>}, "exported_at")

RECURSIVE filterDocs(_, _)
filterDocs(docs, predicate) ==
    IF docs = << >> THEN << >>
    ELSE IF predicateHolds(predicate, Head(docs))
         THEN <<Head(docs)>> \o filterDocs(Tail(docs), predicate)
         ELSE filterDocs(Tail(docs), predicate)

\* FormatConverter.applyFieldMapping
applyFieldMapping(doc, fieldMapping) ==
    LET oldFields == {e[2] : e \in fieldMapping}
        mappedIn == {e \in fieldMapping : e[2] \in DOMAIN doc}
        unmapped == {k \in DOMAIN doc : k \notin oldFields}
    IN [k \in {e[1] : e \in mappedIn} \cup unmapped |->
           IF k \in unmapped THEN doc[k]
           ELSE doc[(CHOOSE e \in mappedIn : e[1] = k)[2]]]

\* the steps of the converter with the transform applied before the filter
convertSteps_transformFirst(documents, options) ==
    LET tr(doc) == applyTransform(options.transform, doc)
        transformed == IF options.transform # "none" THEN Map(tr, documents) ELSE documents
        filtered == IF options.filter # "none" THEN filterDocs(transformed, options.filter) ELSE transformed
        fm(doc) == applyFieldMapping(doc, options.fieldMapping)
        mapped == IF options.fieldMapping # {} THEN Map(fm, filtered) ELSE filtered
        st(doc) == withField(doc, options.timestampField, nowISO)
    IN IF options.timestampField # "" THEN Map(st, mapped) ELSE mapped

\* FormatConverter.convertDocuments, before serialization
convertSteps(documents, options) ==
    LET filtered == IF options.filter # "none" THEN filterDocs(documents, options.filter) ELSE documents
        tr(doc) == applyTransform(options.transform, doc)
        transformed == IF options.transform # "none" THEN Map(tr, filtered) ELSE filtered
        fm(doc) == applyFieldMapping(doc, options.fieldMapping)
        mapped == IF options.fieldMapping # {} THEN Map(fm, transformed) ELSE transformed
        st(doc) == withField(doc, options.timestampField, nowISO)
    IN IF options.timestampField # "" THEN Map(st, mapped) ELSE mapped

convertDocuments(documents, options, targetFormat) ==
    serializeContent(convertSteps(documents, options), targetFormat)

\* FormatConverter.convertContent: the converted text, or the error of sourceFormatter.parse
convertContent(content, options, sourceFormat, targetFormat) ==
    LET r == parse(sourceFormat, content)
    IN IF r.ok THEN [ok |-> TRUE, content |-> serializeContent(convertSteps(r.ds, options), targetFormat)]
       ELSE [ok |-> FALSE, content |-> EmptyText]

-----------------------------------------------------------------------------
(* TransactionEngine: pure steps *)

\* the for-loop of processTransfer from index i on
RECURSIVE processTransferFrom(_, _, _, _, _)
processTransferFrom(sourceDocs, predicate, i, matching, remaining) ==
    IF i > Len(sourceDocs) THEN [matching |-> matching, remaining |-> remaining]
    ELSE IF predicateHolds(predicate, sourceDocs[i])
         THEN processTransferFrom(sourceDocs, predicate, i + 1, Append(matching, sourceDocs[i]), remaining)
         ELSE processTransferFrom(sourceDocs, predicate, i + 1, matching, Append(remaining, sourceDocs[i]))

\* the loop without its else: a matching document is kept in the source too
RECURSIVE processTransferKeeping(_, _, _, _, _)
processTransferKeeping(sourceDocs, predicate, i, matching, remaining) ==
    IF i > Len(sourceDocs) THEN [matching |-> matching, remaining |-> remaining]
    ELSE IF predicateHolds(predicate, sourceDocs[i])
         THEN processTransferKeeping(sourceDocs, predicate, i + 1, Append(matching, sourceDocs[i]), Append(remaining, sourceDocs[i]))
         ELSE processTransferKeeping(sourceDocs, predicate, i + 1, matching, Append(remaining, sourceDocs[i]))

processTransfer_keeping(sourceDocs, predicate) ==
    processTransferKeeping(sourceDocs, predicate, 1, << >>, << >>)

processTransfer(sourceDocs, predicate) ==
    processTransferFrom(sourceDocs, predicate, 1, << >>, << >>)

\* A settled (or pending) getFile: st is "pending", "fulfilled" or "rejected";
\* found = FALSE with st = "fulfilled" is the null of a 404.
Pending == [st |-> "pending", found |-> FALSE, content |-> EmptyText, sha |-> 0]
Rejected == [st |-> "rejected", found |-> FALSE, content |-> EmptyText, sha |-> 0]
Fulfilled(file) ==
    IF file.exists
    THEN [st |-> "fulfilled", found |-> TRUE, content |-> file.content, sha |-> file.sha]
    ELSE [st |-> "fulfilled", found |-> FALSE, content |-> EmptyText, sha |-> 0]

parseFileContent(fileResult, format) ==
    IF fileResult.st = "rejected" \/ ~fileResult.found THEN NoDocs
    ELSE IF fileResult.content.k = "empty" THEN NoDocs
    ELSE LET r == parse(format, fileResult.content)
         IN IF r.ok THEN r.ds ELSE NoDocs

\* sourceFile.status === 'fulfilled' && sourceFile.value ? sourceFile.value.sha : undefined
\* (0 is undefined)
shaOf(fileResult) ==
    IF fileResult.st = "fulfilled" /\ fileResult.found THEN fileResult.sha ELSE 0

mergeWithDestination(destDocs, newDocs) == destDocs \o newDocs

\* matching.length === 0
matchingIsEmpty_never(matching) == FALSE
matchingIsEmpty(matching) == Len(matching) = 0

-----------------------------------------------------------------------------
(* State *)

VARIABLES
    files,            \* the remote store: path -> [exists, content, sha]
    transactionLock,  \* TransactionEngine.transactionLock: the keys mapped to true
    pc,               \* task -> "idle", "fetching", "committing", "done"
    args,             \* task -> the arguments of its transfer() call
    sourceFile,       \* task -> settled result of getFile(sourcePath)
    destFile,         \* task -> settled result of getFile(destPath)
    work,             \* task -> what executeAtomicTransfer computed
    todo,             \* task -> remote writes of atomicCommit not issued yet
    log,              \* task -> remote writes issued by this call, with their outcome
    result,           \* task -> how the call ended
    calls,            \* number of transfer() calls made so far
    external,         \* number of writes by other writers so far
    writeQueue,       \* StorageManager.writeQueue: the queued write closures
    isProcessingQueue,\* StorageManager.isProcessingQueue
    qcall,            \* id -> the enqueueWrite / flushWriteQueue call with that id and its promise
    loop,             \* id -> the drain loop run by that call: where it is suspended
    started,          \* ids of the queued writes in the order they began to execute
    exec,             \* the queued writes executed so far: remote write issued, outcome
    qcalls,           \* number of enqueueWrite / flushWriteQueue calls made so far
    dbop,             \* the operation of the GitHubDB facade in progress or just ended
    dbops,            \* number of facade operations started so far
    cache,            \* CacheManager.cache: path -> the cached item, if any
    config,           \* GitHubDB.config: mode, cache
    input,            \* the arguments of the call of a formatter or converter function
    output            \* what that call returned or threw ("none": not called yet)

\* the state of the TransactionEngine and of the StorageManager
tvars == <<transactionLock, pc, args, sourceFile, destFile, work, todo, log, result, calls>>
qvars == <<writeQueue, isProcessingQueue, qcall, loop, started, exec, qcalls>>
\* the state of a facade operation, and of a call of a pure function
dvars == <<dbop, dbops, cache, config>>
cvars == <<input, output>>
vars == <<files, transactionLock, pc, args, sourceFile, destFile, work, todo, log, result, calls, external,
          writeQueue, isProcessingQueue, qcall, loop, started, exec, qcalls, dbop, dbops, cache, config, input, output>>

Absent == [exists |-> FALSE, content |-> EmptyText, sha |-> 0]
Stored(content) == [exists |-> TRUE, content |-> content, sha |-> 1]

\* transfer(sourcePath, destPath, {predicate, transform, conversion})
Call(src, dst, predicate, transform, conversion) == [sourcePath |-> src, destPath |-> dst, predicate |-> predicate, transform |-> transform, conversion |-> conversion]

Calls ==
    { Call(newJsonl, doneJson, "adult", "none", NoConversion),
      Call(newJsonl, doneJson, "adult", "none", FullConversion),
      Call(newJsonl, doneJsonDoneCsv, "all", "archive", NoConversion),
      Call(newJsonlDoneJson, doneCsv, "all", "none", NoConversion) }

NoCall == Call(<< >>, << >>, "nobody", "none", NoConversion)

NoState == [sourcePath |-> << >>, destPath |-> << >>, sourceContent |-> EmptyText, destContent |-> EmptyText, sourceSha |-> 0, destSha |-> 0]
NoWork == [sourceDocs |-> NoDocs, destDocs |-> NoDocs, matching |-> NoDocs, remaining |-> NoDocs, processedMatching |-> NoDocs, state |-> NoState]

\* What the repository holds when the program starts.
StoreOf(src, json, csv, other) ==
    [p \in Paths |-> CASE p = newJsonl -> src [] p = doneJson -> json [] p = doneCsv -> csv
                        [] p = newJsonlDoneJson -> other [] OTHER -> Absent]

InitialStores ==
    { StoreOf(Stored(JSONLserialize(<<alice, bob>>)), Absent, Absent, Absent),
      StoreOf(Stored(JSONLserialize(<<alice, bob, alice>>)), Stored(JSONserialize(<<carol>>)),
              Stored(CSVserialize(<<rowDave>>)), Stored(JSONserialize(<<bob, carol>>))),
      StoreOf(Stored(JSONLserialize(<<bob, carol>>)), Stored(Garbage), Stored(EmptyText), Absent) }

\* the closure enqueueWrite(path, content, message, append) pushes, with the id of its call
Write(id, path, content, append) == [id |-> id, path |-> path, content |-> content, append |-> append]
NoWrite == Write(0, << >>, EmptyText, FALSE)
NoQCall == [kind |-> "none", st |-> "none", w |-> NoWrite]
\* read: the revision the closure in execution got from its getFile (0: none)
NoLoop == [phase |-> "off", cur |-> NoWrite, read |-> 0, op |-> [op |-> "none", path |-> << >>, content |-> EmptyText, sha |-> 0]]
QIds == 1..MaxQueueCalls

NoOp == [kind |-> "none", pc |-> "idle"]
NoInput == [fn |-> "none"]
NoOutput == [st |-> "none"]

\* nothing has been called yet on the instance
\* CacheManager.cache has no item for the key
NoItem == [cached |-> FALSE]
\* new GitHubDB(config): mode 'document' or 'collection', cache (default true)
Config(mode, enabled) == [mode |-> mode, cache |-> enabled]

\* the state of an instance constructed with the given config, nothing called yet
Constructed(cfg) ==
    /\ config = cfg
    /\ cache = [p \in Paths |-> NoItem]
    /\ dbop = NoOp
    /\ dbops = 0
    /\ output = NoOutput
    /\ writeQueue = << >>
    /\ isProcessingQueue = FALSE
    /\ qcall = [i \in QIds |-> NoQCall]
    /\ loop = [i \in QIds |-> NoLoop]
    /\ started = << >>
    /\ exec = << >>
    /\ qcalls = 0
    /\ transactionLock = {}
    /\ pc = [t \in Tasks |-> "idle"]
    /\ args = [t \in Tasks |-> NoCall]
    /\ sourceFile = [t \in Tasks |-> Pending]
    /\ destFile = [t \in Tasks |-> Pending]
    /\ work = [t \in Tasks |-> NoWork]
    /\ todo = [t \in Tasks |-> << >>]
    /\ log = [t \in Tasks |-> << >>]
    /\ result = [t \in Tasks |-> "none"]
    /\ calls = 0
    /\ external = 0

Quiet == Constructed(Config("document", TRUE))

Init ==
    /\ files \in InitialStores
    /\ input = NoInput
    /\ Quiet

-----------------------------------------------------------------------------
(* Remote store (GitHub contents API behind GitHubAPIWrapper) *)

\* PUT without sha: accepted only when the path does not exist
createFileAccepted(store, path) == ~store[path].exists
\* PUT with sha: accepted only when sha is the current revision of the path
updateFileAccepted(store, path, sha) == store[path].exists /\ store[path].sha = sha

writeAccepted(store, w) ==
    IF w.op = "create" THEN createFileAccepted(store, w.path)
    ELSE updateFileAccepted(store, w.path, w.sha)

\* the store after an accepted write: new content, next revision
afterWrite(store, path, content) ==
    [store EXCEPT ![path] = [exists |-> TRUE, content |-> content, sha |-> store[path].sha + 1]]

createFile(path, content) == [op |-> "create", path |-> path, content |-> content, sha |-> 0]
updateFile(path, content, sha) == [op |-> "update", path |-> path, content |-> content, sha |-> sha]

-----------------------------------------------------------------------------
(* TransactionEngine *)

\* transactionLock.get(lockKey), .set(lockKey, true), .delete(lockKey)
lockHeld_never(lock, key) == FALSE
lockHeld(lock, key) == key \in lock
lockSet(lock, key) == lock \cup {key}
lockDelete_forgotten(lock, key) == lock
lockDelete(lock, key) == lock \ {key}

\* atomicCommit writing the source before the destination
atomicCommit_sourceFirst(state) ==
    IF state.sourceSha = 0 THEN [throws |-> TRUE, writes |-> << >>]
    ELSE [throws |-> FALSE,
          writes |-> << updateFile(state.sourcePath, state.sourceContent, state.sourceSha),
                        IF state.destSha # 0 THEN updateFile(state.destPath, state.destContent, state.destSha)
                        ELSE createFile(state.destPath, state.destContent) >>]

\* atomicCommit that stops after its first write
atomicCommit_firstWriteOnly(state) ==
    IF state.sourceSha = 0 THEN [throws |-> TRUE, writes |-> << >>]
    ELSE [throws |-> FALSE,
          writes |-> << IF state.destSha # 0 THEN updateFile(state.destPath, state.destContent, state.destSha)
                        ELSE createFile(state.destPath, state.destContent) >>]

\* atomicCommit: the remote writes it issues, in order, or the error it throws
atomicCommit(state) ==
    CASE state.sourceSha # 0 /\ state.destSha # 0 ->
           [throws |-> FALSE,
            writes |-> << updateFile(state.destPath, state.destContent, state.destSha),
                          updateFile(state.sourcePath, state.sourceContent, state.sourceSha) >>]
      [] state.sourceSha # 0 /\ state.destSha = 0 ->
           [throws |-> FALSE,
            writes |-> << createFile(state.destPath, state.destContent),
                          updateFile(state.sourcePath, state.sourceContent, state.sourceSha) >>]
      [] state.sourceSha = 0 ->
           [throws |-> TRUE, writes |-> << >>]
      [] OTHER ->
           [throws |-> FALSE,
            writes |-> << createFile(state.sourcePath, state.sourceContent),
                          updateFile(state.destPath, state.destContent, state.destSha) >>]

\* executeAtomicTransfer after both reads settled, up to the call of atomicCommit
executeAtomicTransfer(call, srcResult, dstResult) ==
    LET sourceFormat == detectFormat(call.sourcePath)
        destFormat == detectFormat(call.destPath)
        sourceDocs == parseFileContent(srcResult, sourceFormat)
        destDocs == parseFileContent(dstResult, destFormat)
        split == processTransfer(sourceDocs, call.predicate)
        tr(doc) == applyTransform(call.transform, doc)
        processedMatching == IF call.transform # "none" THEN Map(tr, split.matching) ELSE split.matching
        newDestDocs == mergeWithDestination(destDocs, processedMatching)
        newDestContent ==
            IF call.conversion.on THEN convertDocuments(newDestDocs, call.conversion, destFormat)
            ELSE serializeContent(newDestDocs, destFormat)
        newSourceContent ==
            IF call.conversion.on THEN convertDocuments(split.remaining, call.conversion, sourceFormat)
            ELSE serializeContent(split.remaining, sourceFormat)
    IN [sourceDocs |-> sourceDocs, destDocs |-> destDocs,
        matching |-> split.matching, remaining |-> split.remaining,
        processedMatching |-> processedMatching,
        state |-> IF matchingIsEmpty(split.matching) THEN NoState
                  ELSE [sourcePath |-> call.sourcePath, destPath |-> call.destPath,
                        sourceContent |-> newSourceContent, destContent |-> newDestContent,
                        sourceSha |-> shaOf(srcResult), destSha |-> shaOf(dstResult)]]

\* transfer(): the lock check and, when free, the lock and the start of both reads
transfer(t, call) ==
    /\ pc[t] = "idle"
    /\ calls < MaxCalls
    /\ calls' = calls + 1
    /\ args' = [args EXCEPT ![t] = call]
    /\ IF lockHeld(transactionLock, lockKey(call.sourcePath, call.destPath))
       THEN /\ pc' = [pc EXCEPT ![t] = "done"]
            /\ result' = [result EXCEPT ![t] = "TransferInProgress"]
            /\ UNCHANGED transactionLock
       ELSE /\ pc' = [pc EXCEPT ![t] = "fetching"]
            /\ transactionLock' = lockSet(transactionLock, lockKey(call.sourcePath, call.destPath))
            /\ UNCHANGED result
    /\ UNCHANGED <<files, sourceFile, destFile, work, todo, log, external>>
    /\ UNCHANGED <<qvars, dvars, cvars>>

\* api.getFile(sourcePath) settles
getSourceFile(t) ==
    /\ pc[t] = "fetching"
    /\ sourceFile[t].st = "pending"
    /\ \E fails \in BOOLEAN :
         sourceFile' = [sourceFile EXCEPT ![t] = IF fails THEN Rejected ELSE Fulfilled(files[args[t].sourcePath])]
    /\ UNCHANGED <<files, transactionLock, pc, args, destFile, work, todo, log, result, calls, external>>
    /\ UNCHANGED <<qvars, dvars, cvars>>

\* api.getFile(destPath) settles
getDestFile(t) ==
    /\ pc[t] = "fetching"
    /\ destFile[t].st = "pending"
    /\ \E fails \in BOOLEAN :
         destFile' = [destFile EXCEPT ![t] = IF fails THEN Rejected ELSE Fulfilled(files[args[t].destPath])]
    /\ UNCHANGED <<files, transactionLock, pc, args, sourceFile, work, todo, log, result, calls, external>>
    /\ UNCHANGED <<qvars, dvars, cvars>>

\* the end of a call: the finally block of transfer()
finish(t, outcome) ==
    /\ pc' = [pc EXCEPT ![t] = "done"]
    /\ result' = [result EXCEPT ![t] = outcome]
    /\ transactionLock' = lockDelete(transactionLock, lockKey(args[t].sourcePath, args[t].destPath))

\* Promise.allSettled resolved: parse, partition, convert, choose the commit
processFetched(t) ==
    /\ pc[t] = "fetching"
    /\ sourceFile[t].st # "pending"
    /\ destFile[t].st # "pending"
    /\ LET w == executeAtomicTransfer(args[t], sourceFile[t], destFile[t])
           plan == atomicCommit(w.state)
       IN /\ work' = [work EXCEPT ![t] = w]
          /\ IF matchingIsEmpty(w.matching)
             THEN finish(t, "ok") /\ UNCHANGED todo
             ELSE IF plan.throws
                  THEN finish(t, "failed") /\ UNCHANGED todo
                  ELSE /\ pc' = [pc EXCEPT ![t] = "committing"]
                       /\ todo' = [todo EXCEPT ![t] = plan.writes]
                       /\ UNCHANGED <<result, transactionLock>>
    /\ UNCHANGED <<files, args, sourceFile, destFile, log, calls, external>>
    /\ UNCHANGED <<qvars, dvars, cvars>>

\* the catch blocks of updateBothFiles and atomicCommit: the error of a failed write
\* is thrown on to the caller of transfer()
caught_swallowed(error) == "ok"
caught(error) == "failed"

\* the next remote write of atomicCommit / updateBothFiles is answered
commitWrite(t) ==
    /\ pc[t] = "committing"
    /\ LET w == Head(todo[t])
       IN \E fails \in BOOLEAN :
            LET ok == ~fails /\ writeAccepted(files, w)
            IN /\ log' = [log EXCEPT ![t] = Append(@, [w |-> w, ok |-> ok])]
               /\ files' = IF ok THEN afterWrite(files, w.path, w.content) ELSE files
               /\ todo' = [todo EXCEPT ![t] = IF ok THEN Tail(@) ELSE << >>]
               /\ IF ~ok THEN finish(t, caught(w))
                  ELSE IF Len(todo[t]) = 1 THEN finish(t, "ok")
                  ELSE UNCHANGED <<pc, result, transactionLock>>
    /\ UNCHANGED <<args, sourceFile, destFile, work, calls, external>>
    /\ UNCHANGED <<qvars, dvars, cvars>>

\* the caller has seen the outcome; the task may call transfer() again
returned(t) ==
    /\ pc[t] = "done"
    /\ pc' = [pc EXCEPT ![t] = "idle"]
    /\ args' = [args EXCEPT ![t] = NoCall]
    /\ sourceFile' = [sourceFile EXCEPT ![t] = Pending]
    /\ destFile' = [destFile EXCEPT ![t] = Pending]
    /\ work' = [work EXCEPT ![t] = NoWork]
    /\ todo' = [todo EXCEPT ![t] = << >>]
    /\ log' = [log EXCEPT ![t] = << >>]
    /\ result' = [result EXCEPT ![t] = "none"]
    /\ UNCHANGED <<files, transactionLock, calls, external>>
    /\ UNCHANGED <<qvars, dvars, cvars>>

\* another writer of the repository commits to a path
ExternalWrites == {<<doneJson, JSONserialize(<<bob>>)>>}

externalWrite(path, content) ==
    /\ external < MaxExternal
    /\ external' = external + 1
    /\ files' = afterWrite(files, path, content)
    /\ UNCHANGED <<transactionLock, pc, args, sourceFile, destFile, work, todo, log, result, calls>>
    /\ UNCHANGED <<qvars, dvars, cvars>>

Next ==
    \/ \E t \in Tasks, call \in Calls : transfer(t, call)
    \/ \E t \in Tasks : getSourceFile(t)
    \/ \E t \in Tasks : getDestFile(t)
    \/ \E t \in Tasks : processFetched(t)
    \/ \E t \in Tasks : commitWrite(t)
    \/ \E t \in Tasks : returned(t)
    \/ \E w \in ExternalWrites : externalWrite(w[1], w[2])

Spec == Init /\ [][Next]_vars

\* Transfers of one instance as the only writers of the repository: two that
\* share their source, two that share their destination, one whose source is its
\* destination, and the conversion of a JSON document into a line-delimited file
\* (predicate () => true, conversion: {sourceFormat: 'json', targetFormat: 'jsonl'})
SoleWriterCalls ==
    { Call(newJsonl, doneJson, "adult", "none", NoConversion),
      Call(newJsonl, doneCsv, "all", "archive", NoConversion),
      Call(newJsonlDoneJson, doneJson, "all", "none", NoConversion),
      Call(doneJson, doneJson, "adult", "none", NoConversion),
      Call(doneJson, newJsonl, "all", "none", PlainConversion) }

SoleWriterNext ==
    \/ \E t \in Tasks, call \in SoleWriterCalls : transfer(t, call)
    \/ \E t \in Tasks : getSourceFile(t)
    \/ \E t \in Tasks : getDestFile(t)
    \/ \E t \in Tasks : processFetched(t)
    \/ \E t \in Tasks : commitWrite(t)
    \/ \E t \in Tasks : returned(t)

SoleWriterSpec == Init /\ [][SoleWriterNext]_vars

-----------------------------------------------------------------------------
(* StorageManager: the write queue *)

\* StorageManager.getFormat(path): path.endsWith('.jsonl') ? 'jsonl' : 'json'
getFormat(path) ==
    IF Len(path) >= 2 /\ path[Len(path) - 1] = Dot /\ path[Len(path)] = "jsonl" THEN "jsonl" ELSE "json"

\* StorageManager.serializeContent(data, format) of an array: the lines joined
\* by newlines with none after the last, or the pretty-printed JSON array
storageSerializeContent(data, format) ==
    IF format = "jsonl"
    THEN IF Len(data) > 0 THEN Text("jsonl_open", data) ELSE EmptyText
    ELSE Text("json_arr", data)

\* writeCollection(path, documents): the closure it enqueues
writeCollection(path, documents) ==
    [path |-> path, content |-> storageSerializeContent(documents, getFormat(path)), append |-> FALSE]

\* the writes the callers of one StorageManager enqueue: an append to the
\* line-delimited collection, a writeCollection of it, an overwrite of done.json,
\* an overwrite of done.csv
QueueWrites ==
    { [path |-> newJsonl, content |-> JSONLserialize(<<carol>>), append |-> TRUE],
      writeCollection(newJsonl, <<alice, bob>>),
      [path |-> doneJson, content |-> JSONserialize(<<alice>>), append |-> FALSE],
      [path |-> doneCsv, content |-> CSVserialize(<<rowDave>>), append |-> FALSE] }

\* existingContent + content. Line-delimited texts that end with a newline, one
\* after the other, are the line-delimited text of both; after a text with no
\* final newline the first new line continues the last old one. Two JSON texts or
\* texts of two layouts one after the other parse in no format. No input appends
\* to a tabular file.
concatText(existingContent, content) ==
    CASE existingContent.k = "empty" -> content
      [] content.k = "empty" -> existingContent
      [] existingContent.k = "jsonl" /\ content.k = "jsonl" ->
           Text("jsonl", existingContent.ds \o content.ds)
      [] OTHER -> Garbage

\* the remote write a queued closure issues once its getFile settled
\* (a failed read is caught and read as null)
writeOperation(w, existing) ==
    IF w.append /\ existing.st = "fulfilled" /\ existing.found
    THEN updateFile(w.path, concatText(existing.content, w.content), existing.sha)
    ELSE IF existing.st = "fulfilled" /\ existing.found
         THEN updateFile(w.path, w.content, existing.sha)
         ELSE createFile(w.path, w.content)

\* the while loop of processWriteQueue at its test, taking the newest closure
whileLoop_pop(queue) ==
    IF Len(queue) > 0
    THEN [isProcessingQueue |-> TRUE, writeQueue |-> SubSeq(queue, 1, Len(queue) - 1),
          loop |-> [NoLoop EXCEPT !.phase = "reading", !.cur = queue[Len(queue)]], st |-> "pending"]
    ELSE [isProcessingQueue |-> FALSE, writeQueue |-> queue, loop |-> NoLoop, st |-> "resolved"]

\* the while loop of processWriteQueue that leaves isProcessingQueue false
whileLoop_flagNotSet(queue) ==
    IF Len(queue) > 0
    THEN [isProcessingQueue |-> FALSE, writeQueue |-> Tail(queue),
          loop |-> [NoLoop EXCEPT !.phase = "reading", !.cur = Head(queue)], st |-> "pending"]
    ELSE [isProcessingQueue |-> FALSE, writeQueue |-> queue, loop |-> NoLoop, st |-> "resolved"]

\* the while loop of processWriteQueue at its test: shift the oldest closure and
\* call it (its getFile is issued), or clear the flag and return
whileLoop(queue) ==
    IF Len(queue) > 0
    THEN [isProcessingQueue |-> TRUE, writeQueue |-> Tail(queue),
          loop |-> [NoLoop EXCEPT !.phase = "reading", !.cur = Head(queue)], st |-> "pending"]
    ELSE [isProcessingQueue |-> FALSE, writeQueue |-> queue, loop |-> NoLoop, st |-> "resolved"]

\* processWriteQueue up to its first await or its return
processWriteQueue(flag, queue) ==
    IF flag
    THEN [isProcessingQueue |-> flag, writeQueue |-> queue, loop |-> NoLoop, st |-> "resolved"]
    ELSE whileLoop(queue)

\* the state after a call with a fresh id ran up to its first await or its return
calling(id, kind, w, r) ==
    /\ qcalls' = id
    /\ qcall' = [qcall EXCEPT ![id] = [kind |-> kind, st |-> r.st, w |-> w]]
    /\ writeQueue' = r.writeQueue
    /\ isProcessingQueue' = r.isProcessingQueue
    /\ loop' = [loop EXCEPT ![id] = r.loop]
    /\ started' = IF r.loop.phase = "reading" THEN Append(started, r.loop.cur.id) ELSE started

\* enqueueWrite(path, content, message, append): push the closure and, unless a
\* drain is in progress, run processWriteQueue
enqueue(path, content, append) ==
    /\ qcalls < MaxQueueCalls
    /\ LET id == qcalls + 1
           w == Write(id, path, content, append)
           queue == Append(writeQueue, w)
       IN calling(id, "enqueue", w,
                  IF ~isProcessingQueue THEN processWriteQueue(isProcessingQueue, queue)
                  ELSE [isProcessingQueue |-> isProcessingQueue, writeQueue |-> queue,
                        loop |-> NoLoop, st |-> "resolved"])
    /\ UNCHANGED <<files, exec, external>>

\* enqueueWrite called by a writer of the StorageManager
enqueueWrite(path, content, append) ==
    /\ enqueue(path, content, append)
    /\ UNCHANGED <<tvars, dvars, cvars>>

\* flushWriteQueue(): await processWriteQueue()
flushWriteQueue ==
    /\ qcalls < MaxQueueCalls
    /\ calling(qcalls + 1, "flush", NoWrite, processWriteQueue(isProcessingQueue, writeQueue))
    /\ UNCHANGED <<files, exec, external>>
    /\ UNCHANGED <<tvars, dvars, cvars>>

\* the getFile of the closure in execution settles and its remote write is issued
readAnswered(id) ==
    /\ loop[id].phase = "reading"
    /\ \E fails \in BOOLEAN :
         LET existing == IF fails THEN Rejected ELSE Fulfilled(files[loop[id].cur.path])
         IN loop' = [loop EXCEPT ![id].phase = "writing", ![id].read = shaOf(existing),
                                  ![id].op = writeOperation(loop[id].cur, existing)]
    /\ UNCHANGED <<files, external, writeQueue, isProcessingQueue, qcall, started, exec, qcalls>>
    /\ UNCHANGED <<tvars, dvars, cvars>>

\* the remote write of the closure in execution is answered: the loop goes on to
\* its test, or the rejection leaves processWriteQueue and rejects the call that runs it
writeAnswered(id) ==
    /\ loop[id].phase = "writing"
    /\ \E fails \in BOOLEAN :
         LET ok == ~fails /\ writeAccepted(files, loop[id].op)
             r == whileLoop(writeQueue)
         IN /\ exec' = Append(exec, [id |-> loop[id].cur.id, w |-> loop[id].op, read |-> loop[id].read, ok |-> ok, by |-> id])
            /\ files' = IF ok THEN afterWrite(files, loop[id].op.path, loop[id].op.content) ELSE files
            /\ IF ok
               THEN /\ writeQueue' = r.writeQueue
                    /\ isProcessingQueue' = r.isProcessingQueue
                    /\ loop' = [loop EXCEPT ![id] = r.loop]
                    /\ qcall' = [qcall EXCEPT ![id].st = r.st]
                    /\ started' = IF r.loop.phase = "reading" THEN Append(started, r.loop.cur.id) ELSE started
               ELSE /\ loop' = [loop EXCEPT ![id] = NoLoop]
                    /\ qcall' = [qcall EXCEPT ![id].st = "rejected"]
                    /\ UNCHANGED <<writeQueue, isProcessingQueue, started>>
    /\ UNCHANGED <<external, qcalls>>
    /\ UNCHANGED <<tvars, dvars, cvars>>

QueueNext ==
    \/ \E w \in QueueWrites : enqueueWrite(w.path, w.content, w.append)
    \/ flushWriteQueue
    \/ \E id \in QIds : readAnswered(id)
    \/ \E id \in QIds : writeAnswered(id)
    \/ \E w \in ExternalWrites : externalWrite(w[1], w[2])

QueueSpec == Init /\ [][QueueNext]_vars

-----------------------------------------------------------------------------
(* GitHubDB facade and the secondary operations of the TransactionEngine *)

\* StorageManager.parseContent followed by the Array.isArray test of readCollection.
\* Pretty-printed JSON spans several lines, none of which JSON.parse accepts; one
\* JSON line followed by a newline is a JSON text.
parseContent(content, format) ==
    IF format = "jsonl"
    THEN CASE content.k = "empty" -> Parsed(NoDocs)
           [] content.k \in {"jsonl", "jsonl_open"} -> Parsed(content.ds)
           [] OTHER -> ParseError
    ELSE CASE content.k = "empty" -> Parsed(NoDocs)
           [] content.k = "json_obj" -> Parsed(content.ds)
           [] content.k = "json_arr" -> Parsed(content.ds)
           [] content.k \in {"jsonl", "jsonl_open"} /\ Len(content.ds) = 1 -> Parsed(content.ds)
           [] OTHER -> ParseError

\* StorageManager.readCollection(path) once its getFile settled with fileResult
readCollection(fileResult, path) ==
    IF fileResult.st = "rejected" THEN ParseError
    ELSE IF ~fileResult.found THEN Parsed(NoDocs)
         ELSE parseContent(fileResult.content, getFormat(path))

\* a facade operation may be started: none is between its remote calls
dbFree == dbop.pc \in {"idle", "done", "queued"} /\ dbops < MaxDbOps

\* verifyConsistency(sourcePath, destPath, predicate): both reads, each caught to []
verifyConsistency(sourcePath, destPath, predicate) ==
    /\ dbFree
    /\ dbops' = dbops + 1
    /\ UNCHANGED <<cache, config>>
    /\ \E failsSource, failsDest \in BOOLEAN :
         LET read(path, fails) == readCollection(IF fails THEN Rejected ELSE Fulfilled(files[path]), path)
             sourceDocs == IF read(sourcePath, failsSource).ok THEN read(sourcePath, failsSource).ds ELSE NoDocs
             destDocs == IF read(destPath, failsDest).ok THEN read(destPath, failsDest).ds ELSE NoDocs
             sourceMatches == filterDocs(sourceDocs, predicate)
             destMatches == filterDocs(destDocs, predicate)
         IN dbop' = [kind |-> "verifyConsistency", pc |-> "done", sourcePath |-> sourcePath,
                     destPath |-> destPath, predicate |-> predicate, sourceRead |-> ~failsSource,
                     result |-> Len(sourceMatches) = 0]
    /\ UNCHANGED <<files, external>>
    /\ UNCHANGED <<tvars, qvars, cvars>>

\* convertFormat after getFile(sourcePath) settled, with a missing source taken as empty
convertFormatPlan_missingAsEmpty(source, destPath, options, sourceFormat, targetFormat) ==
    IF source.st = "rejected" THEN [throws |-> TRUE, writes |-> << >>]
    ELSE LET r == convertContent(source.content, options, sourceFormat, targetFormat)
         IN IF r.ok THEN [throws |-> FALSE, writes |-> <<createFile(destPath, r.content)>>]
            ELSE [throws |-> TRUE, writes |-> << >>]

\* convertFormat after getFile(sourcePath) settled: the create it issues, or the throw
convertFormatPlan(source, destPath, options, sourceFormat, targetFormat) ==
    IF source.st = "rejected" \/ ~source.found THEN [throws |-> TRUE, writes |-> << >>]
    ELSE LET r == convertContent(source.content, options, sourceFormat, targetFormat)
         IN IF r.ok THEN [throws |-> FALSE, writes |-> <<createFile(destPath, r.content)>>]
            ELSE [throws |-> TRUE, writes |-> << >>]

\* convertFormat(sourcePath, destPath, options): getFile(sourcePath) is issued
convertFormat(sourcePath, destPath, options, sourceFormat, targetFormat) ==
    /\ dbFree
    /\ dbops' = dbops + 1
    /\ UNCHANGED <<cache, config>>
    /\ dbop' = [kind |-> "convertFormat", pc |-> "reading", sourcePath |-> sourcePath, destPath |-> destPath,
                options |-> options, sourceFormat |-> sourceFormat, targetFormat |-> targetFormat,
                source |-> Pending, issued |-> << >>, result |-> "none"]
    /\ UNCHANGED <<files, external>>
    /\ UNCHANGED <<tvars, qvars, cvars>>

\* getFile(sourcePath) of convertFormat settles; the create is issued or the call throws
convertFormatRead ==
    /\ dbop.kind = "convertFormat" /\ dbop.pc = "reading"
    /\ \E fails \in BOOLEAN :
         LET source == IF fails THEN Rejected ELSE Fulfilled(files[dbop.sourcePath])
             plan == convertFormatPlan(source, dbop.destPath, dbop.options, dbop.sourceFormat, dbop.targetFormat)
         IN dbop' = IF plan.throws
                    THEN [dbop EXCEPT !.pc = "done", !.source = source, !.result = "failed"]
                    ELSE [dbop EXCEPT !.pc = "writing", !.source = source, !.issued = plan.writes]
    /\ UNCHANGED <<files, external, dbops, cache, config>>
    /\ UNCHANGED <<tvars, qvars, cvars>>

\* createFile(destPath) of convertFormat is answered
convertFormatWrite ==
    /\ dbop.kind = "convertFormat" /\ dbop.pc = "writing"
    /\ \E fails \in BOOLEAN :
         LET w == dbop.issued[1]
             ok == ~fails /\ writeAccepted(files, w)
         IN /\ files' = IF ok THEN afterWrite(files, w.path, w.content) ELSE files
            /\ dbop' = [dbop EXCEPT !.pc = "done", !.result = IF ok THEN "ok" ELSE "failed"]
    /\ UNCHANGED <<external, dbops, cache, config>>
    /\ UNCHANGED <<tvars, qvars, cvars>>

\* the queue as it is when a facade operation does not call enqueueWrite
queueUntouched == UNCHANGED <<writeQueue, isProcessingQueue, qcall, loop, started, exec, qcalls>>

\* GitHubDB.append -> StorageManager.appendToCollection(path, data): getFile(path) is issued
appendStarts(collectionPath, data) ==
    /\ dbops' = dbops + 1
    /\ UNCHANGED <<cache, config>>
    /\ dbop' = [kind |-> "append", pc |-> "checking", path |-> collectionPath, data |-> data,
                id |-> 0, result |-> "none"]
    /\ UNCHANGED <<files, external>>
    /\ UNCHANGED <<tvars, qvars, cvars>>

append(collectionPath, data) == dbFree /\ appendStarts(collectionPath, data)

\* the getFile of appendToCollection settles. api.getFile answers null for a missing
\* file, so the 404 branch of the catch is not taken and any rejection is rethrown;
\* a line-delimited collection enqueues its line, a JSON one goes on to handleJsonAppend
appendChecked ==
    /\ dbop.kind \in {"append", "set"} /\ dbop.pc = "checking"
    /\ \E fails \in BOOLEAN :
         IF fails
         THEN /\ dbop' = [dbop EXCEPT !.pc = "done", !.result = "failed"]
              /\ queueUntouched
              /\ UNCHANGED <<files, external>>
         ELSE IF getFormat(dbop.path) = "jsonl"
              THEN /\ enqueue(dbop.path, JSONLserialize(<<dbop.data>>), TRUE)
                   /\ dbop' = [dbop EXCEPT !.pc = "queued", !.id = qcalls + 1]
              ELSE /\ dbop' = [dbop EXCEPT !.pc = "reading"]
                   /\ queueUntouched
                   /\ UNCHANGED <<files, external>>
    /\ UNCHANGED <<dbops, cache, config>>
    /\ UNCHANGED <<tvars, cvars>>

\* handleJsonAppend: readCollection(path) settles; the whole array with the new
\* document is serialized and enqueued as an append
appendJsonRead ==
    /\ dbop.kind \in {"append", "set"} /\ dbop.pc = "reading"
    /\ \E fails \in BOOLEAN :
         LET existing == readCollection(IF fails THEN Rejected ELSE Fulfilled(files[dbop.path]), dbop.path)
         IN IF existing.ok
            THEN /\ enqueue(dbop.path, Text("json_arr", Append(existing.ds, dbop.data)), TRUE)
                 /\ dbop' = [dbop EXCEPT !.pc = "queued", !.id = qcalls + 1]
            ELSE /\ dbop' = [dbop EXCEPT !.pc = "done", !.result = "failed"]
                 /\ queueUntouched
                 /\ UNCHANGED <<files, external>>
    /\ UNCHANGED <<dbops, cache, config>>
    /\ UNCHANGED <<tvars, cvars>>

\* documents.filter(doc => !predicate(doc))
removeFilter(documents, predicate) == SelectSeq(documents, LAMBDA doc : ~predicateHolds(predicate, doc))

\* `${fullPath}.${format}` with format = config.format || 'json'
removeFilePath(fullPath) == fullPath \o <<Dot, "json">>

\* GitHubDB.remove(collectionPath, predicate): getCollection(fullPath) is issued
remove(collectionPath, predicate) ==
    /\ dbFree
    /\ dbops' = dbops + 1
    /\ UNCHANGED <<cache, config>>
    /\ dbop' = [kind |-> "remove", pc |-> "reading", path |-> collectionPath, predicate |-> predicate,
                filtered |-> NoDocs, issued |-> << >>, result |-> "none"]
    /\ UNCHANGED <<files, external>>
    /\ UNCHANGED <<tvars, qvars, cvars>>

\* getCollection settles: the documents are filtered and getFile(filePath) is issued
removeRead ==
    /\ dbop.kind = "remove" /\ dbop.pc = "reading"
    /\ \E fails \in BOOLEAN :
         LET documents == readCollection(IF fails THEN Rejected ELSE Fulfilled(files[dbop.path]), dbop.path)
         IN dbop' = IF documents.ok
                    THEN [dbop EXCEPT !.pc = "lookup", !.filtered = removeFilter(documents.ds, dbop.predicate)]
                    ELSE [dbop EXCEPT !.pc = "done", !.result = "failed"]
    /\ UNCHANGED <<files, external, dbops, cache, config>>
    /\ UNCHANGED <<tvars, qvars, cvars>>

\* getFile(filePath) settles: the update of filePath is issued, or the call throws
removeLookup ==
    /\ dbop.kind = "remove" /\ dbop.pc = "lookup"
    /\ \E fails \in BOOLEAN :
         LET filePath == removeFilePath(dbop.path)
             currentFile == IF fails \/ filePath \notin Paths THEN Rejected ELSE Fulfilled(files[filePath])
         IN dbop' = IF currentFile.st = "fulfilled" /\ currentFile.found
                    THEN [dbop EXCEPT !.pc = "writing",
                                      !.issued = <<updateFile(filePath, Text("json_arr", dbop.filtered), currentFile.sha)>>]
                    ELSE [dbop EXCEPT !.pc = "done", !.result = "failed"]
    /\ UNCHANGED <<files, external, dbops, cache, config>>
    /\ UNCHANGED <<tvars, qvars, cvars>>

\* api.updateFile(filePath) of remove is answered
removeWrite ==
    /\ dbop.kind = "remove" /\ dbop.pc = "writing"
    /\ \E fails \in BOOLEAN :
         LET w == dbop.issued[1]
             ok == ~fails /\ writeAccepted(files, w)
         IN /\ files' = IF ok THEN afterWrite(files, w.path, w.content) ELSE files
            /\ dbop' = [dbop EXCEPT !.pc = "done", !.result = IF ok THEN "ok" ELSE "failed"]
    /\ UNCHANGED <<external, dbops, cache, config>>
    /\ UNCHANGED <<tvars, qvars, cvars>>

\* what the repository holds when the facade operations are called
DbStores ==
    { StoreOf(Stored(JSONLserialize(<<alice, bob>>)), Absent, Absent, Absent),
      [StoreOf(Stored(JSONLserialize(<<alice, bob>>)), Stored(Text("json_arr", <<carol>>)),
               Stored(CSVserialize(<<rowDave>>)), Absent)
         EXCEPT ![done] = Stored(Text("json_arr", <<alice, bob>>))],
      StoreOf(Stored(Garbage), Absent, Absent, Absent) }

VerifyCalls == { <<newJsonl, doneJson, "adult">>, <<doneCsv, doneJson, "all">>, <<done, doneJson, "adult">> }
ConvertCalls ==
    { <<newJsonl, doneJson, PlainConversion, "jsonl", "json">>,
      <<newJsonl, doneCsv, StampConversion, "jsonl", "csv">>,
      <<doneJson, newJsonlDoneJson, PlainConversion, "json", "jsonl">> }
AppendCalls == { <<newJsonl, carol>>, <<done, carol>> }
RemoveCalls == { <<done, "adult">>, <<doneJson, "adult">> }
DbCalls == { Call(newJsonl, doneJson, "adult", "none", NoConversion) }

DbInit ==
    /\ files \in DbStores
    /\ input = NoInput
    /\ Quiet

DbNext ==
    \/ \E c \in VerifyCalls : verifyConsistency(c[1], c[2], c[3])
    \/ \E c \in ConvertCalls : convertFormat(c[1], c[2], c[3], c[4], c[5])
    \/ convertFormatRead
    \/ convertFormatWrite
    \/ \E c \in AppendCalls : append(c[1], c[2])
    \/ appendChecked
    \/ appendJsonRead
    \/ \E c \in RemoveCalls : remove(c[1], c[2])
    \/ removeRead
    \/ removeLookup
    \/ removeWrite
    \/ \E id \in QIds : readAnswered(id)
    \/ \E id \in QIds : writeAnswered(id)
    \/ \E t \in Tasks, call \in DbCalls : calls < MaxDbCalls /\ transfer(t, call)
    \/ \E t \in Tasks : getSourceFile(t)
    \/ \E t \in Tasks : getDestFile(t)
    \/ \E t \in Tasks : processFetched(t)
    \/ \E t \in Tasks : commitWrite(t)

DbSpec == DbInit /\ [][DbNext]_vars

\* await Promise.all(batch.map(doc => db.append(collectionPath, doc))): the appends
\* are issued in the order of the batch, each before the one before it has returned
Batch == <<carol, rowDave>>

batchAppend(collectionPath) ==
    /\ dbop.pc \in {"idle", "done", "queued"}
    /\ dbops < Len(Batch)
    /\ dbops > 0 => dbop.path = collectionPath
    /\ appendStarts(collectionPath, Batch[dbops + 1])

\* the stores of DbStores whose files are well-formed
BatchStores ==
    {store \in DbStores : \A p \in Paths : store[p].exists => parse(detectFormat(p), store[p].content).ok}

BatchInit ==
    /\ files \in BatchStores
    /\ input = NoInput
    /\ Quiet

BatchNext ==
    \/ \E collectionPath \in {newJsonl, done, doneJson} : batchAppend(collectionPath)
    \/ appendChecked
    \/ appendJsonRead
    \/ \E id \in QIds : readAnswered(id)
    \/ \E id \in QIds : writeAnswered(id)

BatchSpec == BatchInit /\ [][BatchNext]_vars

-----------------------------------------------------------------------------
(* GitHubDB: set, get and delete with the CacheManager *)

\* what JSON.parse or parseContent returns: one object, or an array of objects
Value(shape, ds) == [shape |-> shape, ds |-> ds]
Returns(v) == [st |-> "value", v |-> v]
ReturnsNull == [st |-> "null", v |-> Value("array", NoDocs)]
Throws == [st |-> "throws", v |-> Value("array", NoDocs)]

\* StorageManager.readDocument(path) once its getFile settled with fileResult:
\* null for a missing file, else parseContent(file.content, getFormat(path)):
\* the array of the parsed lines, or JSON.parse of the text ([] for '')
readDocument(fileResult, path) ==
    IF fileResult.st = "rejected" THEN Throws
    ELSE IF ~fileResult.found THEN ReturnsNull
    ELSE LET k == fileResult.content.k
             ds == fileResult.content.ds
         IN IF getFormat(path) = "jsonl"
            THEN CASE k = "empty" -> Returns(Value("array", NoDocs))
                   [] k \in {"jsonl", "jsonl_open"} -> Returns(Value("array", ds))
                   [] OTHER -> Throws
            ELSE CASE k = "empty" -> Returns(Value("array", NoDocs))
                   [] k = "json_obj" -> Returns(Value("object", ds))
                   [] k = "json_arr" -> Returns(Value("array", ds))
                   [] k \in {"jsonl", "jsonl_open"} /\ Len(ds) = 1 -> Returns(Value("object", ds))
                   [] OTHER -> Throws

\* StorageManager.serializeContent(data, format) of one document
serializeDocument(data, format) ==
    IF format = "jsonl" THEN Text("jsonl_open", <<data>>) ELSE Text("json_obj", <<data>>)

Item(data) == [cached |-> TRUE, data |-> data]
\* CacheManager.set(key, data): nothing when the cache is disabled
cacheSet(items, enabled, key, data) == IF enabled THEN [items EXCEPT ![key] = Item(data)] ELSE items
\* CacheManager.delete(key)
cacheDelete(items, key) == [items EXCEPT ![key] = NoItem]
\* CacheManager.get(key) returns an item
cacheHit(items, enabled, key) == enabled /\ items[key].cached

\* the caller awaits each operation: the next one starts when the last has returned
\* and no transfer is in progress
returnedToCaller ==
    /\ \/ dbop.pc \in {"idle", "done"}
       \/ dbop.kind = "append" /\ dbop.pc = "queued" /\ qcall[dbop.id].st # "pending"
    /\ \A t \in Tasks : pc[t] \in {"idle", "done"}
cacheFree == returnedToCaller /\ dbops < MaxCacheOps

\* GitHubDB.get(path): the cached item if there is one, else readDocument, whose
\* value is cached when truthy (objects and arrays are)
get(path) ==
    /\ cacheFree
    /\ dbops' = dbops + 1
    /\ IF cacheHit(cache, config.cache, path)
       THEN /\ dbop' = [kind |-> "get", pc |-> "done", path |-> path, hit |-> TRUE,
                        result |-> Returns(cache[path].data)]
            /\ UNCHANGED cache
       ELSE \E fails \in BOOLEAN :
              LET data == readDocument(IF fails THEN Rejected ELSE Fulfilled(files[path]), path)
              IN /\ dbop' = [kind |-> "get", pc |-> "done", path |-> path, hit |-> FALSE, result |-> data]
                 /\ cache' = IF data.st = "value" THEN cacheSet(cache, config.cache, path, data.v) ELSE cache
    /\ UNCHANGED <<files, external, config>>
    /\ UNCHANGED <<tvars, qvars, cvars>>

\* GitHubDB.set(path, data): writeDocument enqueues the serialized document in
\* document mode; in collection mode appendToCollection is entered
set(path, data) ==
    /\ cacheFree
    /\ dbops' = dbops + 1
    /\ IF config.mode = "document"
       THEN /\ enqueue(path, serializeDocument(data, getFormat(path)), FALSE)
            /\ dbop' = [kind |-> "set", pc |-> "queued", path |-> path, data |-> data,
                        id |-> qcalls + 1, result |-> "none"]
       ELSE /\ dbop' = [kind |-> "set", pc |-> "checking", path |-> path, data |-> data,
                        id |-> 0, result |-> "none"]
            /\ queueUntouched
            /\ UNCHANGED <<files, external>>
    /\ UNCHANGED <<cache, config>>
    /\ UNCHANGED <<tvars, cvars>>

\* the promise of enqueueWrite settles: set caches the data it was given, or throws
setReturns ==
    /\ dbop.kind = "set" /\ dbop.pc = "queued"
    /\ qcall[dbop.id].st # "pending"
    /\ IF qcall[dbop.id].st = "resolved"
       THEN /\ cache' = cacheSet(cache, config.cache, dbop.path, Value("object", <<dbop.data>>))
            /\ dbop' = [dbop EXCEPT !.pc = "done", !.result = "ok"]
       ELSE /\ dbop' = [dbop EXCEPT !.pc = "done", !.result = "failed"]
            /\ UNCHANGED cache
    /\ UNCHANGED <<files, external, dbops, config>>
    /\ UNCHANGED <<tvars, qvars, cvars>>

\* GitHubDB.delete(path): api.deleteFile reads the sha and deletes the file, then
\* the cached item is dropped; a failed or not-found read, or a failed delete, throws
delete(path) ==
    /\ cacheFree
    /\ dbops' = dbops + 1
    /\ \E readFails \in BOOLEAN, deleteFails \in BOOLEAN :
         LET file == IF readFails THEN Rejected ELSE Fulfilled(files[path])
             ok == file.st = "fulfilled" /\ file.found /\ ~deleteFails
         IN /\ files' = IF ok THEN [files EXCEPT ![path] = Absent] ELSE files
            /\ cache' = IF ok THEN cacheDelete(cache, path) ELSE cache
            /\ dbop' = [kind |-> "delete", pc |-> "done", path |-> path,
                        result |-> IF ok THEN "ok" ELSE "failed"]
    /\ UNCHANGED <<external, config>>
    /\ UNCHANGED <<tvars, qvars, cvars>>

\* the timer of CacheManager.set fires after the TTL: this.delete(key)
expire(key) ==
    /\ cache[key].cached
    /\ cache' = cacheDelete(cache, key)
    /\ UNCHANGED <<files, external, dbop, dbops, config>>
    /\ UNCHANGED <<tvars, qvars, cvars>>

\* GitHubDB.append and GitHubDB.transfer called by a caller that awaits each operation
cacheAppend(collectionPath, data) == cacheFree /\ appendStarts(collectionPath, data)
cacheTransfer(t, call) == returnedToCaller /\ calls < MaxDbCalls /\ transfer(t, call)

CacheStores ==
    { StoreOf(Stored(JSONLserialize(<<alice, bob>>)), Stored(Text("json_obj", <<carol>>)), Absent, Absent) }
CacheConfigs == { Config("document", TRUE), Config("collection", TRUE), Config("document", FALSE) }
CachePaths == {newJsonl, doneJson}
SetCalls == { <<doneJson, bob>>, <<newJsonl, carol>> }
CacheAppendCalls == { <<newJsonl, carol>> }
CacheCalls == { Call(newJsonl, doneJson, "adult", "none", NoConversion) }

CacheInit ==
    /\ files \in CacheStores
    /\ input = NoInput
    /\ \E cfg \in CacheConfigs : Constructed(cfg)

CacheNext ==
    \/ \E path \in CachePaths : get(path)
    \/ \E c \in SetCalls : set(c[1], c[2])
    \/ setReturns
    \/ \E path \in CachePaths : delete(path)
    \/ \E key \in CachePaths : expire(key)
    \/ \E c \in CacheAppendCalls : cacheAppend(c[1], c[2])
    \/ appendChecked
    \/ appendJsonRead
    \/ \E id \in QIds : readAnswered(id)
    \/ \E id \in QIds : writeAnswered(id)
    \/ \E t \in Tasks, call \in CacheCalls : cacheTransfer(t, call)
    \/ \E t \in Tasks : getSourceFile(t)
    \/ \E t \in Tasks : getDestFile(t)
    \/ \E t \in Tasks : processFetched(t)
    \/ \E t \in Tasks : commitWrite(t)

CacheSpec == CacheInit /\ [][CacheNext]_vars

-----------------------------------------------------------------------------
(* Formatters and FormatConverter called on their own *)

Formats == {"json", "jsonl", "csv", "yaml"}
Documents == {alice, bob, rowDave, emptyDoc, blankName}

\* formatter.parse(formatter.serialize([doc]))
RoundTripInputs == {[fn |-> "roundTrip", format |-> f, doc |-> d] : f \in Formats, d \in Documents}

Returned(v) == [st |-> "returned", v |-> v]
Threw(v) == [st |-> "threw", v |-> v]

roundTrip ==
    /\ input.fn = "roundTrip" /\ output = NoOutput
    /\ output' = LET r == parse(input.format, serializeContent(<<input.doc>>, input.format))
                 IN IF r.ok THEN Returned(r.ds) ELSE Threw(0)
    /\ UNCHANGED <<files, external, input, dvars>>
    /\ UNCHANGED <<tvars, qvars>>

\* applyFieldMapping(doc, fieldMapping), fieldMapping as its <<newField, oldField>> entries
Mappings ==
    { {<<"uid", "id">>}, {<<"age", "id">>}, {<<"id", "id">>}, {<<"uid", "nope">>},
      {<<"uid", "id">>, <<"years", "age">>}, {<<"id", "age">>, <<"age", "id">>} }
MappingInputs == {[fn |-> "applyFieldMapping", doc |-> d, fieldMapping |-> m] : d \in {alice, bob, rowDave}, m \in Mappings}

callFieldMapping ==
    /\ input.fn = "applyFieldMapping" /\ output = NoOutput
    /\ output' = Returned(applyFieldMapping(input.doc, input.fieldMapping))
    /\ UNCHANGED <<files, external, input, dvars>>
    /\ UNCHANGED <<tvars, qvars>>

\* convertDocuments(documents, options) and convertContent(content, options)
OrderedConversion == Conversion("adult", "senior", {<<"years", "age">>, <<"stamp", "id">>}, "stamp")
ConversionOptions ==
    { PlainConversion, StampConversion, FullConversion, OrderedConversion,
      Conversion("adult", "senior", {}, ""),
      Conversion("none", "archive", {<<"flag", "archived">>}, ""),
      Conversion("none", "archive", {}, "archived") }
DocumentSeqs == { << >>, <<alice>>, <<bob>>, <<alice, bob>>, <<bob, carol, alice>> }
FormatPairs == { <<"jsonl", "json">>, <<"json", "jsonl">>, <<"yaml", "csv">> }
ConvertDocumentsInputs ==
    {[fn |-> "convertDocuments", documents |-> ds, options |-> o, targetFormat |-> fp[2]] :
        ds \in DocumentSeqs, o \in ConversionOptions, fp \in FormatPairs}
ConvertContentInputs ==
    UNION { {[fn |-> "convertContent", content |-> c, options |-> o,
              sourceFormat |-> fp[1], targetFormat |-> fp[2]] :
                c \in {serializeContent(ds, fp[1]) : ds \in DocumentSeqs} \cup {Garbage},
                o \in ConversionOptions} : fp \in FormatPairs }

callConvertDocuments ==
    /\ input.fn = "convertDocuments" /\ output = NoOutput
    /\ output' = Returned(convertDocuments(input.documents, input.options, input.targetFormat))
    /\ UNCHANGED <<files, external, input, dvars>>
    /\ UNCHANGED <<tvars, qvars>>

callConvertContent ==
    /\ input.fn = "convertContent" /\ output = NoOutput
    /\ output' = LET r == convertContent(input.content, input.options, input.sourceFormat, input.targetFormat)
                 IN IF r.ok THEN Returned(r.content) ELSE Threw(0)
    /\ UNCHANGED <<files, external, input, dvars>>
    /\ UNCHANGED <<tvars, qvars>>

\* CSVFormatter on text: a string is the sequence of its characters
Comma == ","
Quote == "\""
Newline == "\n"

firstIndex(str, ch) == CHOOSE i \in 1..Len(str) : str[i] = ch /\ \A j \in 1..(i - 1) : str[j] # ch
includes(str, ch) == \E i \in 1..Len(str) : str[i] = ch

\* str.split(sep)
RECURSIVE split(_, _)
split(str, sep) ==
    IF ~includes(str, sep) THEN <<str>>
    ELSE LET i == firstIndex(str, sep)
         IN <<SubSeq(str, 1, i - 1)>> \o split(SubSeq(str, i + 1, Len(str)), sep)

\* strs.join(sep)
RECURSIVE join(_, _)
join(strs, sep) ==
    IF strs = << >> THEN << >>
    ELSE IF Len(strs) = 1 THEN strs[1]
         ELSE strs[1] \o <<sep>> \o join(Tail(strs), sep)

\* str.trim()
isSpace(ch) == ch \in {" ", Newline}
RECURSIVE trim(_)
trim(str) ==
    IF str = << >> THEN str
    ELSE IF isSpace(str[1]) THEN trim(Tail(str))
         ELSE IF isSpace(str[Len(str)]) THEN trim(SubSeq(str, 1, Len(str) - 1))
              ELSE str

\* value.replace(/"/g, '""')
RECURSIVE doubleQuotes(_)
doubleQuotes(str) ==
    IF str = << >> THEN << >>
    ELSE (IF str[1] = Quote THEN <<Quote, Quote>> ELSE <<str[1]>>) \o doubleQuotes(Tail(str))

escapeCSV(value) ==
    IF includes(value, Comma) \/ includes(value, Quote) \/ includes(value, Newline)
    THEN <<Quote>> \o doubleQuotes(value) \o <<Quote>>
    ELSE value

\* the for loop of parseCSVLine from character i on
RECURSIVE parseCSVLineFrom(_, _, _, _, _)
parseCSVLineFrom(line, i, current, inQuotes, fields) ==
    IF i > Len(line) THEN Append(fields, current)
    ELSE IF line[i] = Quote THEN parseCSVLineFrom(line, i + 1, current, ~inQuotes, fields)
         ELSE IF line[i] = Comma /\ ~inQuotes
              THEN parseCSVLineFrom(line, i + 1, << >>, inQuotes, Append(fields, current))
              ELSE parseCSVLineFrom(line, i + 1, Append(current, line[i]), inQuotes, fields)

parseCSVLine(line) == Map(trim, parseCSVLineFrom(line, 1, << >>, FALSE, << >>))

nonBlank(line) == trim(line) # << >>

\* CSVFormatter.parse on text: documents as functions from header text to cell text
CSVparseText(content) ==
    LET lines == SelectSeq(split(content, Newline), nonBlank)
    IN IF trim(content) = << >> \/ Len(lines) < 2 THEN << >>
       ELSE LET headers == parseCSVLine(lines[1])
                document(line) ==
                    LET values == parseCSVLine(line)
                    IN [h \in {headers[i] : i \in 1..Len(headers)} |->
                          LET i == CHOOSE k \in 1..Len(headers) :
                                     headers[k] = h /\ \A j \in (k + 1)..Len(headers) : headers[j] # h
                          IN IF i <= Len(values) THEN values[i] ELSE << >>]
            IN Map(document, Tail(lines))

\* CSVFormatter.serialize on text, headers in the order of the keys
CSVserializeText(headers, documents) ==
    IF Len(documents) = 0 THEN << >>
    ELSE LET cell(doc, h) == escapeCSV(IF h \in DOMAIN doc THEN doc[h] ELSE << >>)
             row(doc) == join([i \in 1..Len(headers) |-> cell(doc, headers[i])], Comma)
             lines == <<join(Map(escapeCSV, headers), Comma)>> \o Map(row, documents)
         IN join(lines, Newline) \o <<Newline>>

idHeader == <<"i", "d">>
nameHeader == <<"n", "a", "m", "e">>
csvRow(id, name) == [h \in {idHeader, nameHeader} |-> IF h = idHeader THEN id ELSE name]
\* id,name / 1,Alice / 2,"B,ob"
exampleCsv ==
    idHeader \o <<Comma>> \o nameHeader \o <<Newline, "1", Comma, "A", "l", "i", "c", "e", Newline,
        "2", Comma, Quote, "B", Comma, "o", "b", Quote>>
exampleDocs == << csvRow(<<"1">>, <<"A", "l", "i", "c", "e">>), csvRow(<<"2">>, <<"B", Comma, "o", "b">>) >>
\* id,name / 1,"say ""hi""" : a doubled quote inside a quoted field
quotedCsv ==
    idHeader \o <<Comma>> \o nameHeader \o <<Newline, "1", Comma, Quote, "a", Quote, Quote, "b", Quote>>

\* the cells of the documents that are serialized and parsed again
MaxCell == 2
CellChars == {"a", Comma, Quote, Newline}
Cells == UNION {[1..n -> CellChars] : n \in 0..MaxCell}

\* id,name / 1,a,b : a data row with more fields than the header
extraFieldCsv == idHeader \o <<Comma>> \o nameHeader \o <<Newline, "1", Comma, "a", Comma, "b">>
\* id,name / 1,"a : a quoted field that is not closed
unclosedCsv == idHeader \o <<Comma>> \o nameHeader \o <<Newline, "1", Comma, Quote, "a">>

CsvParseInputs == {[fn |-> "csvParse", content |-> c] : c \in {exampleCsv, quotedCsv, extraFieldCsv, unclosedCsv}}
CsvRoundTripInputs ==
    {[fn |-> "csvRoundTrip", documents |-> <<csvRow(<<"1">>, <<"b">>), csvRow(<<"2">>, c)>>] : c \in Cells}

csvParse ==
    /\ input.fn = "csvParse" /\ output = NoOutput
    /\ output' = Returned(CSVparseText(input.content))
    /\ UNCHANGED <<files, external, input, dvars>>
    /\ UNCHANGED <<tvars, qvars>>

csvRoundTrip ==
    /\ input.fn = "csvRoundTrip" /\ output = NoOutput
    /\ output' = Returned(CSVparseText(CSVserializeText(<<idHeader, nameHeader>>, input.documents)))
    /\ UNCHANGED <<files, external, input, dvars>>
    /\ UNCHANGED <<tvars, qvars>>

\* JSONLFormatter.parse on lines: a line is the JSON text of a document, a blank
\* line, or text that JSON.parse rejects
docLine(d) == [k |-> "doc", d |-> d]
blankLine == [k |-> "blank", d |-> emptyDoc]
badLine == [k |-> "bad", d |-> emptyDoc]
notBlank(line) == line.k # "blank"
lineDoc(line) == line.d

\* content.split('\n').filter(line => line.trim()).map((line, index) => JSON.parse(line)),
\* a failure reported as line index + 1
JSONLparseLines(lines) ==
    LET kept == SelectSeq(lines, notBlank)
    IN IF \E i \in 1..Len(kept) : kept[i].k = "bad"
       THEN Threw(CHOOSE i \in 1..Len(kept) : kept[i].k = "bad" /\ \A j \in 1..(i - 1) : kept[j].k # "bad")
       ELSE Returned(Map(lineDoc, kept))

MaxLines == 3
Lines == {docLine(alice), blankLine, badLine}
JsonlParseInputs == {[fn |-> "jsonlParse", lines |-> ls] : ls \in UNION {[1..n -> Lines] : n \in 0..MaxLines}}

jsonlParse ==
    /\ input.fn = "jsonlParse" /\ output = NoOutput
    /\ output' = JSONLparseLines(input.lines)
    /\ UNCHANGED <<files, external, input, dvars>>
    /\ UNCHANGED <<tvars, qvars>>

CodecInputs == JsonlParseInputs \cup CsvParseInputs \cup CsvRoundTripInputs \cup RoundTripInputs \cup MappingInputs \cup ConvertDocumentsInputs \cup ConvertContentInputs

CodecInit ==
    /\ files = StoreOf(Absent, Absent, Absent, Absent)
    /\ input \in CodecInputs
    /\ Quiet

CodecNext ==
    \/ roundTrip
    \/ callFieldMapping
    \/ callConvertDocuments
    \/ callConvertContent
    \/ csvParse
    \/ csvRoundTrip
    \/ jsonlParse

CodecSpec == CodecInit /\ [][CodecNext]_vars

-----------------------------------------------------------------------------
(* Properties *)

\* the call of task t holds the lock and has not completed
InFlight(t) == pc[t] \in {"fetching", "committing"}
pairOf(call) == <<call.sourcePath, call.destPath>>
TurnedAway(t) == pc[t] = "done" /\ result[t] = "TransferInProgress"
\* the call of task t acquired the lock and has completed
Completed(t) == pc[t] = "done" /\ result[t] # "TransferInProgress"
okWrites(t) == Cardinality({i \in 1..Len(log[t]) : log[t][i].ok})
Range(s) == {s[i] : i \in 1..Len(s)}
Count(s, x) == Cardinality({i \in 1..Len(s) : s[i] = x})

\* C1: of two overlapping transfer calls with the identical (sourcePath, destPath)
\* pair exactly one proceeds: no two calls of one pair are in flight together, a call
\* made while a call of the identical pair is in flight is rejected in that very
\* step with TransferInProgress and leaves the call in flight as it is, and a
\* rejected call has issued no remote read and no remote write.
C1_NoTwoInFlight ==
    \A t, u \in Tasks : t # u /\ InFlight(t) /\ InFlight(u) => pairOf(args[t]) # pairOf(args[u])
C1_RejectedDidNothing ==
    \A t \in Tasks : TurnedAway(t) =>
        /\ sourceFile[t].st = "pending" /\ destFile[t].st = "pending"
        /\ log[t] = << >> /\ todo[t] = << >>
C1_SecondIsRejected ==
    \A t, u \in Tasks :
        (/\ t # u /\ pc[t] = "idle" /\ pc'[t] # "idle"
         /\ InFlight(u) /\ pairOf(args[u]) = pairOf(args'[t]))
        => /\ pc'[t] = "done" /\ result'[t] = "TransferInProgress"
           /\ files' = files /\ pc'[u] = pc[u] /\ transactionLock' = transactionLock
C1_ExactlyOneProceeds ==
    /\ [](C1_NoTwoInFlight /\ C1_RejectedDidNothing)
    /\ [][C1_SecondIsRejected]_vars

C1_Witness ==
    \E t, u \in Tasks : t # u /\ InFlight(t) /\ TurnedAway(u) /\ pairOf(args[t]) = pairOf(args[u])

\* C2: the lock table holds exactly the keys of the calls in flight: once a call
\* that acquired the lock has completed, however it ended, its key is absent, and
\* a rejected contender leaves the key of the call in flight in place.
C2_LockIsInFlight ==
    transactionLock = {lockKey(args[t].sourcePath, args[t].destPath) : t \in {u \in Tasks : InFlight(u)}}

\* a call failed at its second write and a later call for the same pair is in flight
C2_Witness ==
    \E t, u \in Tasks :
        /\ t # u /\ Completed(t) /\ result[t] = "failed" /\ Len(log[t]) = 2
        /\ InFlight(u) /\ pairOf(args[u]) = pairOf(args[t])

\* C3: a call is rejected with TransferInProgress only if a call with the identical
\* ordered pair (sourcePath, destPath) is in flight.
C3_RejectedOnlyByIdenticalPair ==
    [][\A t \in Tasks :
          pc[t] = "idle" /\ result'[t] = "TransferInProgress"
          => \E u \in Tasks : u # t /\ InFlight(u) /\ pairOf(args[u]) = pairOf(args'[t])]_vars

\* C4: a completed transfer has rewritten both files or none, and a failed one
\* has changed no file.
C4_AllOrNothing ==
    \A t \in Tasks : Completed(t) =>
        /\ okWrites(t) \in {0, 2}
        /\ result[t] = "failed" => okWrites(t) = 0

\* C5: a transfer whose predicate matches no document of the source it read
\* issues no remote write and completes without error.
C5_EmptyMatchNoWrite ==
    \A t \in Tasks :
        (Completed(t) /\ \A i \in 1..Len(work[t].sourceDocs) : ~predicateHolds(args[t].predicate, work[t].sourceDocs[i]))
        => log[t] = << >> /\ todo[t] = << >> /\ result[t] = "ok"

\* the source was read, holds documents, and none of them matches
C5_Witness ==
    \E t \in Tasks :
        /\ Completed(t) /\ result[t] = "ok" /\ log[t] = << >>
        /\ sourceFile[t].found /\ destFile[t].found
        /\ Len(work[t].sourceDocs) > 0 /\ work[t].matching = << >>

\* what a transfer is to move and to leave, stated on the documents it read
matchingOf(t) == SelectSeq(work[t].sourceDocs, LAMBDA d : predicateHolds(args[t].predicate, d))
remainingOf(t) == SelectSeq(work[t].sourceDocs, LAMBDA d : ~predicateHolds(args[t].predicate, d))
RECURSIVE transformed(_, _)
transformed(transform, docs) ==
    IF docs = << >> THEN << >>
    ELSE <<applyTransform(transform, Head(docs))>> \o transformed(transform, Tail(docs))
\* both commit writes of the call succeeded
Committed(t) == Completed(t) /\ result[t] = "ok" /\ Len(log[t]) = 2
\* the destination was absent or its text parses in its encoding
destWellFormed(t) ==
    ~destFile[t].found \/ parse(detectFormat(args[t].destPath), destFile[t].content).ok
destHolds(t) == parse(detectFormat(args[t].destPath), log[t][1].w.content)
sourceHolds(t) == parse(detectFormat(args[t].sourcePath), log[t][2].w.content)

\* C6: after a successful transfer without conversion options the destination
\* holds the documents it held before, unchanged and in order, followed by the
\* matching source documents in source order, each passed through transform, and
\* the source holds exactly the non-matching documents in their order.
C6_MovedAndKept ==
    \A t \in Tasks :
        (Committed(t) /\ ~args[t].conversion.on /\ destWellFormed(t))
        => /\ destHolds(t) = Parsed(work[t].destDocs \o transformed(args[t].transform, matchingOf(t)))
           /\ sourceHolds(t) = Parsed(remainingOf(t))

\* C6 for destinations that are not tabular
C6_MovedAndKeptOutsideCsv ==
    \A t \in Tasks :
        (/\ Committed(t) /\ ~args[t].conversion.on /\ destWellFormed(t)
         /\ detectFormat(args[t].destPath) # "csv")
        => /\ destHolds(t) = Parsed(work[t].destDocs \o transformed(args[t].transform, matchingOf(t)))
           /\ sourceHolds(t) = Parsed(remainingOf(t))

\* C7: after a successful transfer with conversion options the documents the
\* destination held before are still there, unchanged and first, the converted
\* matching documents follow them, and the source holds exactly the non-matching
\* documents, unchanged.
C7_ConversionOnMovedOnly ==
    \A t \in Tasks :
        (Committed(t) /\ args[t].conversion.on /\ destWellFormed(t))
        => /\ destHolds(t) = Parsed(work[t].destDocs \o
                  convertSteps(transformed(args[t].transform, matchingOf(t)), args[t].conversion))
           /\ sourceHolds(t) = Parsed(remainingOf(t))

\* C8: processTransfer partitions the source sequence: matching holds exactly the
\* documents the predicate accepts and remaining exactly those it rejects, each in
\* source order, no document is in both, and every document of the source is in
\* one of them as often as it is in the source.
C8_Partition ==
    \A t \in Tasks :
        LET S == work[t].sourceDocs
            m == work[t].matching
            r == work[t].remaining
        IN /\ m = matchingOf(t)
           /\ r = remainingOf(t)
           /\ Range(m) \cap Range(r) = {}
           /\ Len(m) + Len(r) = Len(S)
           /\ \A d \in Range(S) : Count(m, d) + Count(r, d) = Count(S, d)

\* a source with a repeated matching document and a non-matching one
C8_Witness ==
    \E t \in Tasks : Len(work[t].matching) = 2 /\ Len(work[t].remaining) = 1 /\ Len(work[t].sourceDocs) = 3

\* C9: a transfer that commits and whose source existed at fetch time writes the
\* destination first (an update with the revision read at fetch if it existed, a
\* create otherwise) and the source second (an update with the revision read at
\* fetch), as two remote writes, the second issued only after the first succeeded.
C9_DestinationThenSource ==
    \A t \in Tasks :
        (shaOf(sourceFile[t]) # 0 /\ log[t] # << >>)
        => /\ Len(log[t]) <= 2
           /\ log[t][1].w.path = args[t].destPath
           /\ log[t][1].w.content = work[t].state.destContent
           /\ IF shaOf(destFile[t]) # 0
              THEN log[t][1].w.op = "update" /\ log[t][1].w.sha = destFile[t].sha
              ELSE log[t][1].w.op = "create"
           /\ Len(log[t]) = 2 =>
                /\ log[t][1].ok
                /\ log[t][2].w = updateFile(args[t].sourcePath, work[t].state.sourceContent, sourceFile[t].sha)
           /\ (pc[t] = "committing" /\ Len(log[t]) = 1) => log[t][1].ok /\ Len(todo[t]) = 1

\* both writes were issued and accepted, the first an update of an existing destination
C9_Witness ==
    \E t \in Tasks :
        /\ Committed(t) /\ shaOf(sourceFile[t]) # 0 /\ shaOf(destFile[t]) # 0
        /\ log[t][1].ok /\ log[t][2].ok /\ log[t][1].w.op = "update"

\* C10: a transfer for which neither the source nor the destination path exists
\* fails (source file does not exist) instead of completing successfully.
C10_NeitherExistsFails ==
    \A t \in Tasks :
        (/\ Completed(t)
         /\ sourceFile[t].st = "fulfilled" /\ ~sourceFile[t].found
         /\ destFile[t].st = "fulfilled" /\ ~destFile[t].found)
        => result[t] = "failed"

\* C11: a transfer that found the destination but not the source commits by
\* creating the source and then updating the destination with the revision it read
\* at fetch time.
C11_CreateSourceThenUpdateDest ==
    \A t \in Tasks :
        (/\ Completed(t)
         /\ sourceFile[t].st = "fulfilled" /\ ~sourceFile[t].found
         /\ destFile[t].st = "fulfilled" /\ destFile[t].found)
        => /\ log[t] # << >>
           /\ log[t][1].w.op = "create" /\ log[t][1].w.path = args[t].sourcePath
           /\ Len(log[t]) = 2 =>
                /\ log[t][2].w.op = "update" /\ log[t][2].w.path = args[t].destPath
                /\ log[t][2].w.sha = destFile[t].sha

\* the second write of the commit of task t failed after the first was accepted
SecondWriteFailed(t) == Len(log[t]) = 2 /\ log[t][1].ok /\ ~log[t][2].ok

\* C12: when the second write of a commit fails after the first succeeded, the
\* call ends with the error (never with success), the failing step changes
\* nothing in the store, and the call issues no further write: no compensating
\* write, no retry, so the first write stays applied.
C12_FailedStepEndsTheCall ==
    \A t \in Tasks :
        (pc[t] = "committing" /\ Len(log[t]) = 1 /\ Len(log'[t]) = 2 /\ ~log'[t][2].ok)
        => /\ files' = files
           /\ pc'[t] = "done" /\ result'[t] = "failed" /\ todo'[t] = << >>
C12_NoWriteAfterFailure ==
    \A t \in Tasks :
        SecondWriteFailed(t) => pc[t] = "done" /\ result[t] = "failed" /\ todo[t] = << >>
C12_SecondWriteFailureSurfaced ==
    /\ []C12_NoWriteAfterFailure
    /\ [][C12_FailedStepEndsTheCall]_vars

\* the call failed at its second write and the destination still holds the first
C12_Witness ==
    \E t \in Tasks :
        /\ Completed(t) /\ SecondWriteFailed(t) /\ result[t] = "failed"
        /\ files[args[t].destPath].content = log[t][1].w.content
        /\ files[args[t].sourcePath].sha = sourceFile[t].sha

\* C13: a transfer call that returns successfully either issued no write at all
\* or had both of its writes accepted; a call with exactly one accepted write
\* never returns success.
C13_NoSilentPartialSuccess ==
    \A t \in Tasks :
        (Completed(t) /\ result[t] = "ok")
        => \/ log[t] = << >>
           \/ Len(log[t]) = 2 /\ log[t][1].ok /\ log[t][2].ok

\* a call ended with one accepted write and reported the failure
C13_Witness ==
    \E t \in Tasks : Completed(t) /\ okWrites(t) = 1 /\ result[t] = "failed"

\* existing content of the file read at fetch time that its format cannot parse
Malformed(fileResult, format) ==
    /\ fileResult.st = "fulfilled" /\ fileResult.found
    /\ fileResult.content.k # "empty"
    /\ ~parse(format, fileResult.content).ok

\* C15: a transfer that read existing content of the source or of the destination
\* which cannot be parsed in the format of its path fails and issues no write.
C15_MalformedContentFails ==
    \A t \in Tasks :
        (/\ Completed(t)
         /\ \/ Malformed(sourceFile[t], detectFormat(args[t].sourcePath))
            \/ Malformed(destFile[t], detectFormat(args[t].destPath)))
        => log[t] = << >> /\ todo[t] = << >> /\ result[t] = "failed"

\* the write enqueued by call id has been executed, and its record
executed(id) == \E i \in 1..Len(exec) : exec[i].id = id
execOf(id) == exec[CHOOSE i \in 1..Len(exec) : exec[i].id = id]
\* the calls whose drain loop is running
draining == {id \in QIds : loop[id].phase # "off"}
\* the ids of the enqueueWrite calls made so far, in the order of the calls
enqueuedIds == SelectSeq([i \in 1..qcalls |-> i], LAMBDA i : qcall[i].kind = "enqueue")
idsOf(queue) == [i \in 1..Len(queue) |-> queue[i].id]

\* C14: every update issued by a transfer or by a queued write carries the
\* revision that operation read itself; an update whose path was modified after
\* that read is refused, leaves the store as it is, and its failure ends the
\* operation and reaches the caller of that operation, with no retry.
C14_UpdateCarriesOwnRead ==
    /\ \A t \in Tasks : \A i \in 1..Len(log[t]) :
          log[t][i].w.op = "update" =>
             \/ log[t][i].w.path = args[t].destPath /\ log[t][i].w.sha = shaOf(destFile[t])
             \/ log[t][i].w.path = args[t].sourcePath /\ log[t][i].w.sha = shaOf(sourceFile[t])
    /\ \A i \in 1..Len(exec) :
          exec[i].w.op = "update" => exec[i].read # 0 /\ exec[i].w.sha = exec[i].read
C14_TransferConflictFails ==
    \A t \in Tasks :
        (/\ pc[t] = "committing" /\ Len(log'[t]) = Len(log[t]) + 1
         /\ Head(todo[t]).op = "update"
         /\ files[Head(todo[t]).path].sha # Head(todo[t]).sha)
        => /\ files' = files
           /\ pc'[t] = "done" /\ result'[t] = "failed" /\ todo'[t] = << >>
C14_QueuedConflictFails ==
    \A id \in QIds :
        (/\ loop[id].phase = "writing" /\ Len(exec') = Len(exec) + 1
         /\ loop[id].op.op = "update"
         /\ files[loop[id].op.path].sha # loop[id].op.sha)
        => /\ files' = files
           /\ ~exec'[Len(exec')].ok
           /\ loop[id].cur.id \notin {writeQueue'[i].id : i \in 1..Len(writeQueue')}
           /\ qcall'[loop[id].cur.id].st = "rejected"
C14_ConflictFailsAndIsSurfaced ==
    /\ []C14_UpdateCarriesOwnRead
    /\ [][C14_TransferConflictFails /\ C14_QueuedConflictFails]_vars

\* C14 with the failure of a queued update delivered to whichever call runs the drain loop
C14_ConflictRejectsTheDrainLoop ==
    /\ []C14_UpdateCarriesOwnRead
    /\ [][/\ C14_TransferConflictFails
          /\ \A id \in QIds :
                (/\ loop[id].phase = "writing" /\ Len(exec') = Len(exec) + 1
                 /\ loop[id].op.op = "update"
                 /\ files[loop[id].op.path].sha # loop[id].op.sha)
                => /\ files' = files
                   /\ ~exec'[Len(exec')].ok
                   /\ loop[id].cur.id \notin {writeQueue'[i].id : i \in 1..Len(writeQueue')}
                   /\ qcall'[id].st = "rejected"]_vars

\* C16: the queued writes of one StorageManager begin to execute in the order
\* they were enqueued, each only after the one before it has finished, whether
\* they were enqueued before the drain started or while a write was in execution.
C16_StrictFifo ==
    /\ started \o idsOf(writeQueue) = enqueuedIds
    /\ Len(started) - Len(exec) \in {0, 1}
    /\ \A i \in 1..Len(exec) : exec[i].id = started[i]
    /\ Cardinality(draining) = Len(started) - Len(exec)

\* two writes enqueued while the drain loop of the first call ran, all three executed by it
C16_Witness ==
    /\ Len(exec) = 3
    /\ \A i \in 1..3 : exec[i].id = i /\ exec[i].by = 1

\* C17: the future of an enqueueWrite call settles only once the write of that
\* call has been executed, and it is rejected iff that write failed.
C17_FutureFollowsOwnWrite ==
    \A id \in QIds :
        (qcall[id].kind = "enqueue" /\ qcall[id].st # "pending")
        => /\ executed(id)
           /\ qcall[id].st = "rejected" <=> ~execOf(id).ok

\* C18: at most one drain loop runs at any time, and isProcessingQueue is set
\* while it runs.
C18_OneDrainLoop ==
    /\ Cardinality(draining) <= 1
    /\ draining # {} => isProcessingQueue

\* an enqueueWrite and a flushWriteQueue arrived while a drain loop was running
C18_Witness ==
    \E id, j, k \in QIds :
        /\ id < j /\ id < k /\ loop[id].phase = "writing"
        /\ qcall[j].kind = "enqueue" /\ qcall[k].kind = "flush"

\* C19: when a flushWriteQueue call returns, every write enqueued before it has
\* been executed and the queue is empty; a flush of an empty queue with no drain
\* running reads and writes nothing.
C19_FlushDrained ==
    \A id \in QIds :
        (qcall'[id].kind = "flush" /\ qcall'[id].st = "resolved" /\ qcall[id].st # "resolved")
        => /\ writeQueue' = << >>
           /\ draining' = {}
           /\ \A j \in 1..(id - 1) : qcall[j].kind = "enqueue" => executed(j)'
           /\ (writeQueue = << >> /\ draining = {}) => files' = files /\ loop' = loop /\ exec' = exec
C19_FlushReturnsAfterDrain == [][C19_FlushDrained]_vars

\* the remote writes of the instance that are issued and not answered yet
remoteWritesInFlight ==
    Cardinality({t \in Tasks : pc[t] = "committing"}) + Cardinality({id \in QIds : loop[id].phase = "writing"})

\* C20: at most one remote write of the instance is in flight at any time, and
\* every remote write, the commit writes of a transfer included, is executed by
\* the write queue.
C20_OneRemoteWriteThroughQueue ==
    /\ remoteWritesInFlight <= 1
    /\ \A t \in Tasks : \A i \in 1..Len(log[t]) : \E j \in 1..Len(exec) : exec[j].w = log[t][i].w

\* C21: executing a queued write reads its path and then issues exactly one
\* remote write: for a path that exists, an update with the revision just read,
\* whose content is the existing content followed by the new content for an
\* append and the new content otherwise; for a path that does not exist, a create
\* with the new content.
C21_WriteChosenByStoredState ==
    \A id \in QIds :
        (loop[id].phase = "reading" /\ loop'[id].phase = "writing")
        => LET w == loop[id].cur
               f == files[w.path]
           IN loop'[id].op =
                IF f.exists /\ w.append THEN updateFile(w.path, concatText(f.content, w.content), f.sha)
                ELSE IF f.exists THEN updateFile(w.path, w.content, f.sha)
                ELSE createFile(w.path, w.content)
C21_OneWritePerClosure ==
    \A i, j \in 1..Len(exec) : exec[i].id = exec[j].id => i = j
C21_ReadThenOneWrite ==
    /\ []C21_OneWritePerClosure
    /\ [][C21_WriteChosenByStoredState]_vars

\* C21 for the closures whose getFile returned: the write is chosen by what was read
C21_WriteChosenByWhatWasRead ==
    /\ []C21_OneWritePerClosure
    /\ [][\A id \in QIds :
            (loop[id].phase = "reading" /\ loop'[id].phase = "writing")
            => LET w == loop[id].cur
                   f == files[w.path]
               IN \/ loop'[id].op =
                       IF f.exists /\ w.append THEN updateFile(w.path, concatText(f.content, w.content), f.sha)
                       ELSE IF f.exists THEN updateFile(w.path, w.content, f.sha)
                       ELSE createFile(w.path, w.content)
                  \/ loop'[id].read = 0 /\ loop'[id].op = createFile(w.path, w.content)]_vars

\* C24: for every codec and every document d, parsing the serialization of the
\* one-element sequence [d] returns exactly the one-element sequence [d], with
\* the same fields and the same values.
C24_RoundTrip ==
    (input.fn = "roundTrip" /\ output # NoOutput) => output = Returned(<<input.doc>>)

\* C24 for the codecs other than the tabular one
C24_RoundTripOutsideCsv ==
    (input.fn = "roundTrip" /\ output # NoOutput /\ input.format # "csv") => output = Returned(<<input.doc>>)

\* what the conversion steps must give for the documents docs: the documents
\* that pass the filter, each transformed, then renamed, then stamped
pipeline(docs, options) ==
    LET keep(d) == options.filter = "none" \/ predicateHolds(options.filter, d)
        pass == SelectSeq(docs, keep)
        stepT(d) == IF options.transform # "none" THEN applyTransform(options.transform, d) ELSE d
        stepM(d) == IF options.fieldMapping # {} THEN applyFieldMapping(d, options.fieldMapping) ELSE d
        stepS(d) == IF options.timestampField = "" THEN d
                    ELSE [f \in DOMAIN d \cup {options.timestampField} |->
                            IF f = options.timestampField THEN nowISO ELSE d[f]]
    IN [i \in 1..Len(pass) |-> stepS(stepM(stepT(pass[i])))]

\* C27: convertContent and convertDocuments apply filter, then transform, then
\* field mapping, then the timestamp, then serialize: the filter sees the input
\* documents, the transform only those that passed, the mapping the transformed
\* documents, and the timestamp overwrites a field of its name left by the
\* earlier steps.
C27_PipelineOrder ==
    /\ (input.fn = "convertDocuments" /\ output # NoOutput)
       => output = Returned(serializeContent(pipeline(input.documents, input.options), input.targetFormat))
    /\ (input.fn = "convertContent" /\ output # NoOutput /\ parse(input.sourceFormat, input.content).ok)
       => output = Returned(serializeContent(pipeline(parse(input.sourceFormat, input.content).ds, input.options),
                                             input.targetFormat))

\* a conversion in which every step changes what the next one sees has returned
C27_Witness ==
    /\ input.fn = "convertContent" /\ input.options = OrderedConversion
    /\ input.content = serializeContent(<<bob, carol, alice>>, input.sourceFormat)
    /\ input.targetFormat = "json"
    /\ output = Returned(JSONserialize(<<[years |-> Num(60), stamp |-> nowISO], [years |-> Num(60), stamp |-> nowISO]>>))

\* C28: applyFieldMapping gives a document in which every new name whose old
\* field is present holds the value of the old field, every field that is not an
\* old field is kept with its value, an old field whose new name differs is gone
\* unless it is itself a new name, and no value of the input is lost.
C28_FieldMapping ==
    (input.fn = "applyFieldMapping" /\ output # NoOutput)
    => LET d == input.doc
           m == input.fieldMapping
           out == output.v
           olds == {e[2] : e \in m}
           news == {e[1] : e \in {x \in m : x[2] \in DOMAIN d}}
       IN /\ \A e \in m : e[2] \in DOMAIN d => e[1] \in DOMAIN out /\ out[e[1]] = d[e[2]]
          /\ \A k \in DOMAIN d \ olds : k \in DOMAIN out /\ out[k] = d[k]
          /\ \A e \in m : (e[2] \in DOMAIN d /\ e[1] # e[2] /\ e[2] \notin news) => e[2] \notin DOMAIN out
          /\ \A k \in DOMAIN d :
                \/ k \in DOMAIN out /\ out[k] = d[k]
                \/ \E e \in m : e[2] = k /\ e[1] \in DOMAIN out /\ out[e[1]] = d[k]

\* C28 for mappings none of whose new names is an unmapped field of the document
C28_FieldMappingWithoutClash ==
    (/\ input.fn = "applyFieldMapping" /\ output # NoOutput
     /\ \A e \in input.fieldMapping : e[1] \notin DOMAIN input.doc \ {x[2] : x \in input.fieldMapping})
    => LET d == input.doc
           m == input.fieldMapping
           out == output.v
           olds == {e[2] : e \in m}
       IN /\ \A e \in m : e[2] \in DOMAIN d => e[1] \in DOMAIN out /\ out[e[1]] = d[e[2]]
          /\ \A k \in DOMAIN d \ olds : k \in DOMAIN out /\ out[k] = d[k]
          /\ DOMAIN out = (DOMAIN d \ olds) \cup {e[1] : e \in {x \in m : x[2] \in DOMAIN d}}

\* C25: the CSV codec takes the first line as header and handles quoted cells
\* with a comma, a quote or a newline: the example text parses to its two
\* documents, a doubled quote in a quoted cell parses to one quote, and parsing
\* the serialization of documents returns the same cell texts.
C25_QuotedCells ==
    /\ (input.fn = "csvParse" /\ output # NoOutput /\ input.content = exampleCsv)
       => output = Returned(exampleDocs)
    /\ (input.fn = "csvParse" /\ output # NoOutput /\ input.content = quotedCsv)
       => output = Returned(<<csvRow(<<"1">>, <<"a", Quote, "b">>)>>)
    /\ (input.fn = "csvRoundTrip" /\ output # NoOutput) => output = Returned(input.documents)

\* C25 for cells without a quote, a newline or a blank at either end
C25_CommaInQuotedCells ==
    /\ (input.fn = "csvParse" /\ output # NoOutput /\ input.content = exampleCsv)
       => output = Returned(exampleDocs)
    /\ (/\ input.fn = "csvRoundTrip" /\ output # NoOutput
        /\ \A i \in 1..Len(input.documents) : \A h \in DOMAIN input.documents[i] :
              ~includes(input.documents[i][h], Quote) /\ ~includes(input.documents[i][h], Newline))
       => output = Returned(input.documents)

\* C26: parsing JSONL content with a malformed line fails with the 1-based number
\* that line has in the content, blank lines counted; content without a malformed
\* line parses to the documents of all its lines that are not blank.
C26_MalformedLineNumber ==
    (input.fn = "jsonlParse" /\ output # NoOutput)
    => LET ls == input.lines
           bad == {i \in 1..Len(ls) : ls[i].k = "bad"}
       IN IF bad # {}
          THEN output = Threw(CHOOSE i \in bad : \A j \in bad : i <= j)
          ELSE output = Returned(Map(lineDoc, SelectSeq(ls, notBlank)))

\* C26 with the lines numbered after the blank lines were removed
C26_NumberAmongNonBlankLines ==
    (input.fn = "jsonlParse" /\ output # NoOutput)
    => LET ls == SelectSeq(input.lines, notBlank)
           bad == {i \in 1..Len(ls) : ls[i].k = "bad"}
       IN IF bad # {}
          THEN output = Threw(CHOOSE i \in bad : \A j \in bad : i <= j)
          ELSE output = Returned(Map(lineDoc, ls))

\* the documents a path holds, read with the codec of its extension
storedDocuments(store, path) ==
    IF store[path].exists THEN parse(detectFormat(path), store[path].content).ds ELSE NoDocs

verifyConsistencyReturns == dbop'.kind = "verifyConsistency" /\ dbops' = dbops + 1

\* C22: verifyConsistency returns true exactly when no document stored at
\* sourcePath satisfies the predicate, in every encoding and also when the
\* read of the source fails
C22_TrueIffNoStoredMatch ==
    [][verifyConsistencyReturns
       => (dbop'.result <=> filterDocs(storedDocuments(files, dbop'.sourcePath), dbop'.predicate) = << >>)]_vars

\* C22 for a JSON or JSON Lines source whose read succeeded
C22_TrueIffNoMatchWhenReadAsStored ==
    [][(verifyConsistencyReturns /\ dbop'.sourceRead
        /\ detectFormat(dbop'.sourcePath) \in {"json", "jsonl"})
       => (dbop'.result <=> filterDocs(storedDocuments(files, dbop'.sourcePath), dbop'.predicate) = << >>)]_vars

\* steps of a convertFormat call: its read settles, its create is answered
convertFormatReadSettles == dbop.kind = "convertFormat" /\ dbop.pc = "reading" /\ dbop'.pc # "reading"
convertFormatStep == dbop'.kind = "convertFormat" /\ dbop' # dbop

\* the create convertFormat has to issue for what the store holds at sourcePath
convertedCreate(op, store) ==
    <<createFile(op.destPath,
                 convertContent(store[op.sourcePath].content, op.options, op.sourceFormat, op.targetFormat).content)>>

\* convertFormat never writes sourcePath or any path but destPath, and leaves the transfer locks alone
convertFormatTouchesDestOnly ==
    convertFormatStep
    => /\ transactionLock' = transactionLock
       /\ \A p \in Paths \ {dbop'.destPath} : files'[p] = files[p]
       /\ files'[dbop'.destPath] # files[dbop'.destPath]
          => /\ ~files[dbop'.destPath].exists
             /\ dbop.pc = "writing" /\ dbop'.result = "ok"
             /\ files'[dbop'.destPath].content = dbop.issued[1].content

\* C23 as stated: convertFormat fails without a remote write when the source is
\* absent; otherwise it issues exactly one remote write, a create of destPath with
\* the converted content; it never writes sourcePath and leaves the transfer locks alone
C23_OneCreateUnlessSourceAbsent ==
    [][/\ convertFormatTouchesDestOnly
       /\ convertFormatReadSettles
          => IF files[dbop.sourcePath].exists
             THEN dbop'.pc = "writing" /\ dbop'.issued = convertedCreate(dbop, files)
             ELSE dbop'.pc = "done" /\ dbop'.result = "failed" /\ dbop'.issued = << >>]_vars

\* C23, amended: convertFormat fails without a remote write when the source is
\* absent, when reading it fails or when its content is malformed in the source
\* format; otherwise it issues exactly one remote write, a create of destPath with
\* the converted content; it never writes sourcePath and leaves the transfer locks alone
C23_OneCreateUnlessSourceUnusable ==
    [][/\ convertFormatTouchesDestOnly
       /\ convertFormatReadSettles
          => IF /\ dbop'.source.st = "fulfilled"
                /\ files[dbop.sourcePath].exists
                /\ parse(dbop.sourceFormat, files[dbop.sourcePath].content).ok
             THEN dbop'.pc = "writing" /\ dbop'.issued = convertedCreate(dbop, files)
             ELSE dbop'.pc = "done" /\ dbop'.result = "failed" /\ dbop'.issued = << >>]_vars

\* a conversion went through, its create accepted, while a transfer of the same pair held its lock
C23_Witness ==
    /\ dbop.kind = "convertFormat" /\ dbop.pc = "done" /\ dbop.result = "ok"
    /\ lockHeld(transactionLock, lockKey(dbop.sourcePath, dbop.destPath))
    /\ \E t \in Tasks : pc[t] \in {"fetching", "committing"}
    /\ files[dbop.destPath].content = dbop.issued[1].content

\* getCollection(path) on a store, the read succeeding
getCollection(store, path) == readCollection(Fulfilled(store[path]), path)

\* the queued write of the append in progress is executed in this step and accepted
appendWriteExecuted ==
    /\ dbop.kind = "append" /\ dbop.pc = "queued"
    /\ Len(exec') = Len(exec) + 1
    /\ exec'[Len(exec')].id = dbop.id /\ exec'[Len(exec')].ok

\* C29: once the write of append(collectionPath, d) has executed, getCollection
\* returns the documents the collection held before followed by d, for a JSON
\* and for a JSON Lines collection, existing or not
C29_AppendedAfterPrevious ==
    [][(appendWriteExecuted /\ getCollection(files, dbop.path).ok)
       => getCollection(files', dbop.path) = Parsed(Append(getCollection(files, dbop.path).ds, dbop.data))]_vars

\* C29 for a JSON Lines collection and for a collection that does not exist yet
C29_AppendedToLinesOrNew ==
    [][(appendWriteExecuted /\ getCollection(files, dbop.path).ok
        /\ (getFormat(dbop.path) = "jsonl" \/ ~files[dbop.path].exists))
       => getCollection(files', dbop.path) = Parsed(Append(getCollection(files, dbop.path).ds, dbop.data))]_vars

\* the update of remove is answered and accepted in this step
removeSucceeds == dbop.kind = "remove" /\ dbop.pc = "writing" /\ dbop'.pc = "done" /\ dbop'.result = "ok"

\* C30: after remove(collectionPath, predicate) succeeds, getCollection returns
\* exactly the documents that did not match, in their order, and no other path
\* has been written
C30_OnlyMatchingRemoved ==
    [][removeSucceeds
       => /\ getCollection(files', dbop.path)
             = Parsed(removeFilter(getCollection(files, dbop.path).ds, dbop.predicate))
          /\ \A p \in Paths \ {dbop.path} : files'[p] = files[p]]_vars

\* what remove does when it succeeds: the collection is as it was and the file
\* at collectionPath + ".json" holds the filtered documents
C30_FilteredWrittenBesideCollection ==
    [][removeSucceeds
       => /\ files'[dbop.path] = files[dbop.path]
          /\ files'[removeFilePath(dbop.path)].content = Text("json_arr", dbop.filtered)]_vars

\* C33: the queue is never left blocked: whenever no drain loop is running, the
\* flag is clear and no write is waiting, so that every enqueued write is executed
\* once its remote calls return, also after a queued write failed
C33_QueueNeverBlocked ==
    draining = {} => (~isProcessingQueue /\ writeQueue = << >>)

\* C33 as long as no queued write has failed
C33_NotBlockedBeforeAFailure ==
    (draining = {} /\ \A i \in 1..Len(exec) : exec[i].ok) => (~isProcessingQueue /\ writeQueue = << >>)

\* the settled read of a transfer for one of its two paths
readOf(t, path) == IF path = args[t].destPath THEN destFile[t] ELSE sourceFile[t]

\* the remote writes a transfer has issued or is about to issue
writesOf(t) == [i \in 1..Len(log[t]) |-> log[t][i].w] \o todo[t]

\* C34: the two reads of the fetch stage settle independently, and a transfer
\* creates a path only if its read of that path returned not-found; a side whose
\* read failed otherwise is never taken as absent and written with create
C34_CreateOnlyAfterNotFound ==
    \A t \in Tasks : \A i \in 1..Len(writesOf(t)) :
        writesOf(t)[i].op = "create"
        => readOf(t, writesOf(t)[i].path).st = "fulfilled" /\ ~readOf(t, writesOf(t)[i].path).found

\* C34, the first half: one failed read leaves the result of the other in use,
\* and no path whose read returned a file is created
C34_CreateNeverAfterFound ==
    \A t \in Tasks :
        /\ pc[t] = "committing" => work[t].sourceDocs = parseFileContent(sourceFile[t], detectFormat(args[t].sourcePath))
        /\ \A i \in 1..Len(writesOf(t)) :
              writesOf(t)[i].op = "create" => ~readOf(t, writesOf(t)[i].path).found

\* e is the document d as a codec stores it: as it is, or as the row of strings of a CSV file
represents(e, d) ==
    \/ e = d
    \/ DOMAIN d \subseteq DOMAIN e /\ \A h \in DOMAIN d : e[h] = toString(d[h])

\* the store holds d at path, as it is or transformed
holds(store, path, d, transform) ==
    \E i \in 1..Len(storedDocuments(store, path)) :
        \/ represents(storedDocuments(store, path)[i], d)
        \/ represents(storedDocuments(store, path)[i], applyTransform(transform, d))

\* a remote write of the transfer of task t is answered in this step
commitWriteAnswered(t) == pc[t] = "committing" /\ Len(log'[t]) = Len(log[t]) + 1

retried(t, r) ==
    /\ t # r /\ Completed(t) /\ Completed(r) /\ args[r] = args[t]
    /\ SecondWriteFailed(t) /\ result[r] = "ok" /\ okWrites(r) = 2
    /\ args[t].sourcePath # args[t].destPath

\* C37: after a transfer whose destination write succeeded and whose source
\* write failed, a successful transfer with the same arguments leaves every moved
\* document once in the destination (as often as the source held it) and not at
\* all in the source
C37_RetryReconciles ==
    \A t, r \in Tasks :
        retried(t, r)
        => \A i \in 1..Len(work[t].matching) :
              LET d == work[t].processedMatching[i]
              IN /\ Count(storedDocuments(files, args[t].sourcePath), work[t].matching[i]) = 0
                 /\ Count(storedDocuments(files, args[t].destPath), d)
                    = Count(work[t].destDocs, d) + Count(work[t].processedMatching, d)

\* C37, the source half: the retry leaves no moved document in the source
C37_RetryEmptiesSource ==
    \A t, r \in Tasks :
        retried(t, r)
        => \A i \in 1..Len(work[t].matching) :
              Count(storedDocuments(files, args[t].sourcePath), work[t].matching[i]) = 0

\* C38: a transfer whose source is its destination and whose predicate matches
\* neither duplicates nor loses a document: when the call has ended, however it
\* ended, the path holds the documents it held before, each as often as before
C38_SelfTransferKeepsDocuments ==
    \A t \in Tasks :
        (Completed(t) /\ calls = 1 /\ args[t].sourcePath = args[t].destPath /\ work[t].matching # << >>)
        => \A i \in 1..Len(storedDocuments(files, args[t].sourcePath)) :
              LET d == storedDocuments(files, args[t].sourcePath)[i]
              IN Count(storedDocuments(files, args[t].sourcePath), d) = Count(work[t].sourceDocs, d)

\* C38, the half that holds: no document of the path is lost
C38_SelfTransferLosesNothing ==
    \A t \in Tasks :
        (Completed(t) /\ calls = 1 /\ args[t].sourcePath = args[t].destPath /\ work[t].matching # << >>)
        => \A i \in 1..Len(work[t].sourceDocs) :
              Count(storedDocuments(files, args[t].sourcePath), work[t].sourceDocs[i]) >= 1

\* the conversion transfer of task t (predicate () => true, formats only) ends
\* in this step with both writes accepted
conversionTransferSucceeds(t) ==
    /\ commitWriteAnswered(t) /\ pc'[t] = "done" /\ result'[t] = "ok"
    /\ args[t].predicate = "all" /\ args[t].conversion = PlainConversion
    /\ args[t].sourcePath # args[t].destPath

rowTooLong(content) ==
    LET lines == SelectSeq(split(content, Newline), nonBlank)
    IN Len(lines) >= 2
       /\ \E i \in 2..Len(lines) : Len(parseCSVLine(lines[i])) > Len(parseCSVLine(lines[1]))

\* a quoted field of the content is not closed: the quotes do not pair up
quoteLeftOpen(content) == Cardinality({i \in 1..Len(content) : content[i] = Quote}) % 2 = 1

\* C35: the CSV codec never drops data silently: a data row with more fields than
\* the header, or a quoted field that is not closed, is a format error
C35_CsvSignalsMalformedRows ==
    (input.fn = "csvParse" /\ output # NoOutput /\ (rowTooLong(input.content) \/ quoteLeftOpen(input.content)))
    => output.st = "threw"

\* what the parser returns for them: the surplus value is discarded, the open quote ignored
C35_CsvReturnsTruncatedRows ==
    (input.fn = "csvParse" /\ output # NoOutput /\ input.content \in {extraFieldCsv, unclosedCsv})
    => output = Returned(<<csvRow(<<"1">>, <<"a">>)>>)

\* the queued writes i and j were accepted, j right after i on the same line-delimited path
composed(i, j) ==
    /\ i < j /\ exec[i].ok /\ exec[j].ok
    /\ exec[i].w.path = exec[j].w.path /\ getFormat(exec[i].w.path) = "jsonl"
    /\ \A k \in (i + 1)..(j - 1) : exec[k].w.path # exec[i].w.path \/ ~exec[k].ok
    /\ qcall[exec[j].id].w.append
    /\ files[exec[j].w.path].content = exec[j].w.content

\* C39: line-delimited content written by the StorageManager ends with a newline
\* iff it holds a document, so that after writeCollection(p, S) on a .jsonl path
\* followed by appendToCollection(p, d), readCollection(p) returns S followed by d
C39_WriteThenAppendComposes ==
    \A i, j \in 1..Len(exec) :
        (composed(i, j) /\ ~qcall[exec[i].id].w.append)
        => /\ qcall[exec[i].id].w.content.k \in {"jsonl", "empty"}
           /\ getCollection(files, exec[j].w.path)
              = Parsed(qcall[exec[i].id].w.content.ds \o qcall[exec[j].id].w.content.ds)

\* C39 for two appends: the line of appendToCollection ends with a newline
C39_AppendThenAppendComposes ==
    \A i, j \in 1..Len(exec) :
        (composed(i, j) /\ qcall[exec[i].id].w.append /\ parseContent(exec[i].w.content, "jsonl").ok)
        => getCollection(files, exec[j].w.path)
           = Parsed(parseContent(exec[i].w.content, "jsonl").ds \o qcall[exec[j].id].w.content.ds)

\* every append of the batch has returned and no remote call of the batch failed
batchResolved ==
    /\ dbops = Len(Batch) /\ qcalls = Len(Batch) /\ dbop.pc = "queued"
    /\ \A id \in 1..qcalls : qcall[id].st = "resolved"
    /\ Len(exec) = Len(Batch) /\ \A i \in 1..Len(exec) : exec[i].ok /\ exec[i].read = exec[i].w.sha

\* C31: when the appends of a batch on one collection path are issued together
\* and no remote call fails, then once all their promises have resolved the
\* collection holds every document of the batch exactly once
C31_BatchAppendsAllLand ==
    batchResolved
    => /\ getCollection(files, dbop.path).ok
       /\ \A k \in 1..Len(Batch) : Count(getCollection(files, dbop.path).ds, Batch[k]) = 1

\* C31 for a line-delimited collection
C31_BatchAppendsLandInLines ==
    (batchResolved /\ getFormat(dbop.path) = "jsonl")
    => /\ getCollection(files, dbop.path).ok
       /\ \A k \in 1..Len(Batch) : Count(getCollection(files, dbop.path).ds, Batch[k]) = 1

\* GitHubDB.get(path) returns a value
getReturnsValue == dbop'.kind = "get" /\ dbops' = dbops + 1 /\ dbop'.result.st = "value"

\* C40: a value returned by get(path) is the document as the stored file of the
\* path reads at that moment, never an older cached one
C40_GetReturnsStored ==
    [][getReturnsValue
       => dbop'.result = readDocument(Fulfilled(files[dbop'.path]), dbop'.path)]_vars

\* C40 for an instance in document mode that called only set, get and delete,
\* on a path that is not line-delimited
C40_GetReturnsStoredDocument ==
    [][(getReturnsValue /\ config.mode = "document" /\ calls = 0 /\ qcalls = Len(exec)
        /\ \A id \in 1..qcalls : qcall[id].w.append = FALSE
        /\ getFormat(dbop'.path) = "json")
       => dbop'.result = readDocument(Fulfilled(files[dbop'.path]), dbop'.path)]_vars

====
